---- MODULE Spec2Model ----
(***************************************************************************)
(* Trend-Truth: the trend aggregation and credibility scoring pipeline.    *)
(*                                                                         *)
(* Strings are sequences of one-character strings, so that lower-casing,   *)
(* filtering, trimming, suffix and substring tests are computed the way    *)
(* the Python code computes them.  Real numbers are fixed-point integers;  *)
(* the unit is stated at each definition.                                  *)
(***************************************************************************)
EXTENDS Integers, Sequences, FiniteSets, TLC

VARIABLES
    \* _dedupe_and_rank(trends, limit)
    d_pc, d_trends, d_limit, d_out,
    \* analyze_trend(trend), with the evidence verify_claim returned
    s_pc, s_trend, s_evidence, s_result, s_prev,
    \* the wall clock, in seconds
    now,
    \* analyze (main.py): the lock's holder, the result cache, and per request
    \* thread its position, request, payload and whether it fetched
    _cache_lock, _analysis_cache, a_pc, a_req, a_payload, a_fetched,
    \* verify_claim (verifier.py): the lock's holder, the evidence cache, and
    \* per thread its position, claim, evidence, whether it fetched and how
    \* the RSS search answered
    _verify_cache_lock, _verify_cache, v_pc, v_query, v_result, v_fetched, v_answer,
    \* _read_article_metadata (social_fetcher.py): the lock's holder, the
    \* metadata cache, and per thread its position, link, clock reading,
    \* metadata and whether it fetched
    _metadata_cache_lock, _metadata_cache, m_pc, m_url, m_now, m_meta, m_fetched,
    \* fetch_trends (social_fetcher.py): its position, its arguments, the item
    \* lists of the four sources, the status of X, the list it returns, the
    \* health map, the fetcher calls it made, the outcome of the last one and
    \* the exception that left it
    f_pc, f_req, reddit_items, hn_items, gnews_items, x_items, x_status, f_items,
    source_health, f_calls, f_last, f_raised,
    \* _enrich_items_concurrent: its position, the items it is given, what
    \* each worker's metadata read came back with, and the list it returns;
    \* whether fetch_trends calls it in query mode, and the order in which the
    \* workers finished
    e_pc, e_items, e_outcomes, e_enriched, e_query, e_order,
    \* _balanced_all_categories(items, limit): its position, its arguments and
    \* the list it returns
    b_pc, b_items, b_limit, b_selected,
    \* _summary_is_too_close_to_title(summary, title): its position, its
    \* arguments and its answer
    c_pc, c_summary, c_title, c_close,
    \* _fresh_payload (main.py): its position, the trends fetch_trends returned
    \* with the evidence of each, the results and analyzed_count of the response
    p_pc, p_trends, p_results, p_count

dedupeVars == <<d_pc, d_trends, d_limit, d_out>>

scoreVars == <<s_pc, s_trend, s_evidence, s_result, s_prev>>

analyzeVars == <<_cache_lock, _analysis_cache, a_pc, a_req, a_payload, a_fetched>>

verifyVars ==
    <<_verify_cache_lock, _verify_cache, v_pc, v_query, v_result, v_fetched, v_answer>>

metadataVars ==
    <<_metadata_cache_lock, _metadata_cache, m_pc, m_url, m_now, m_meta, m_fetched>>

cacheVars == <<now, analyzeVars, verifyVars, metadataVars>>

fetchVars ==
    <<f_pc, f_req, reddit_items, hn_items, gnews_items, x_items, x_status, f_items,
      source_health, f_calls, f_last, f_raised>>

enrichVars == <<e_pc, e_items, e_outcomes, e_enriched, e_query, e_order>>

balanceVars == <<b_pc, b_items, b_limit, b_selected>>

closeVars == <<c_pc, c_summary, c_title, c_close>>

payloadVars == <<p_pc, p_trends, p_results, p_count>>

vars ==
    <<dedupeVars, scoreVars, cacheVars, fetchVars, enrichVars, balanceVars, closeVars,
      payloadVars>>

----------------------------------------------------------------------------
(* Python built-ins used by the code *)

Min(a, b) == IF a <= b THEN a ELSE b

Max(a, b) == IF a >= b THEN a ELSE b

SliceToEnd(seq, n) == seq

\* seq[:n], for negative n too
SliceTo(seq, n) ==
    LET len == Len(seq)
        stop == IF n >= 0 THEN Min(n, len) ELSE Max(0, len + n)
    IN  SubSeq(seq, 1, stop)

UpperToLower ==
    ("A" :> "a") @@ ("B" :> "b") @@ ("C" :> "c") @@ ("D" :> "d") @@ ("E" :> "e") @@ ("F" :> "f") @@
    ("G" :> "g") @@ ("H" :> "h") @@ ("I" :> "i") @@ ("J" :> "j") @@ ("K" :> "k") @@ ("L" :> "l") @@
    ("M" :> "m") @@ ("N" :> "n") @@ ("O" :> "o") @@ ("P" :> "p") @@ ("Q" :> "q") @@ ("R" :> "r") @@
    ("S" :> "s") @@ ("T" :> "t") @@ ("U" :> "u") @@ ("V" :> "v") @@ ("W" :> "w") @@ ("X" :> "x") @@
    ("Y" :> "y") @@ ("Z" :> "z")

\* str.lower() on the ASCII range
LowerChar(c) == IF c \in DOMAIN UpperToLower THEN UpperToLower[c] ELSE c

Lower(s) == [i \in 1..Len(s) |-> LowerChar(s[i])]

Whitespace == {" ", "\t", "\n"}

RECURSIVE LStrip(_)
LStrip(s) ==
    IF s # <<>> /\ Head(s) \in Whitespace THEN LStrip(Tail(s)) ELSE s

RECURSIVE RStrip(_)
RStrip(s) ==
    IF s # <<>> /\ s[Len(s)] \in Whitespace
    THEN RStrip(SubSeq(s, 1, Len(s) - 1))
    ELSE s

\* str.strip()
Strip(s) == LStrip(RStrip(s))

\* s.endswith(c)
EndsWith(s, c) ==
    /\ Len(c) <= Len(s)
    /\ SubSeq(s, Len(s) - Len(c) + 1, Len(s)) = c

\* c in s  (substring)
Contains(s, c) ==
    \E i \in 0..(Len(s) - Len(c)) : SubSeq(s, i + 1, i + Len(c)) = c

LowerAlnumSpace == {"a", "b", "c", "d", "e", "f", "g", "h", "i", "j", "k", "l", "m", "n", "o", "p", "q", "r", "s", "t", "u", "v", "w", "x", "y", "z", "0", "1", "2", "3", "4", "5", "6", "7", "8", "9", " "}


\* re.sub(r"[^a-z0-9 ]+", "", text)
KeepLowerAlnumSpace(s) == SelectSeq(s, LAMBDA c : c \in LowerAlnumSpace)

----------------------------------------------------------------------------
(* social_fetcher.py: canonical title key, dedupe and rank *)

_normalize_title(title) == Strip(KeepLowerAlnumSpace(Lower(title)))

\* the dict `unique`, as the sequence of its (key, value) pairs in insertion
\* order: assigning to a key that is present keeps the key's position
DictHas(unique, key) == \E i \in 1..Len(unique) : unique[i].key = key

DictIndex(unique, key) == CHOOSE i \in 1..Len(unique) : unique[i].key = key

DictPut(unique, key, item) ==
    IF DictHas(unique, key)
    THEN [unique EXCEPT ![DictIndex(unique, key)] = [key |-> key, value |-> item]]
    ELSE Append(unique, [key |-> key, value |-> item])

DictValues(unique) == [i \in 1..Len(unique) |-> unique[i].value]

ReplacesExistingOnTie(item, existing) == item.engagement >= existing.engagement

\* current_engagement > existing_engagement
ReplacesExisting(item, existing) == item.engagement > existing.engagement

\* one iteration of `for item in trends`
DedupeStep(unique, item) ==
    LET key == _normalize_title(item.title) IN
    IF key = <<>> THEN unique
    ELSE IF ~DictHas(unique, key) THEN DictPut(unique, key, item)
    ELSE IF ReplacesExisting(item, unique[DictIndex(unique, key)].value)
         THEN DictPut(unique, key, item)
         ELSE unique

RECURSIVE DedupeLoop(_, _)
DedupeLoop(unique, trends) ==
    IF trends = <<>> THEN unique
    ELSE DedupeLoop(DedupeStep(unique, Head(trends)), Tail(trends))

RankKeyLessByEngagementOnly(a, b) == a.engagement < b.engagement

\* the sort key (engagement, created_utc), compared as Python compares tuples
RankKeyLess(a, b) ==
    \/ a.engagement < b.engagement
    \/ a.engagement = b.engagement /\ a.created_utc < b.created_utc

\* sorted(..., reverse=True) is stable: an item goes after every item already
\* placed whose key is not less than its own
RECURSIVE InsertRanked(_, _)
InsertRanked(sorted, item) ==
    IF sorted = <<>> THEN <<item>>
    ELSE IF RankKeyLess(Head(sorted), item)
         THEN <<item>> \o sorted
         ELSE <<Head(sorted)>> \o InsertRanked(Tail(sorted), item)

RECURSIVE SortRanked(_, _)
SortRanked(sorted, rest) ==
    IF rest = <<>> THEN sorted
    ELSE SortRanked(InsertRanked(sorted, Head(rest)), Tail(rest))

Ranked(trends) == SortRanked(<<>>, DictValues(DedupeLoop(<<>>, trends)))

_dedupe_and_rank_uncapped(trends, limit) == Ranked(trends)

_dedupe_and_rank(trends, limit) == SliceTo(Ranked(trends), limit)

----------------------------------------------------------------------------
(* verifier.py: the static trust tables and the source-trust lookup.       *)
(* Weights are integer hundredths.  The tables are sequences: the code     *)
(* returns the weight of the first entry, in dict order, that matches.     *)

CREDIBLE_SOURCE_WEIGHTS == <<
    [candidate |-> <<"r","e","u","t","e","r","s",".","c","o","m">>, weight |-> 100],
    [candidate |-> <<"a","p","n","e","w","s",".","c","o","m">>, weight |-> 100],
    [candidate |-> <<"b","b","c",".","c","o","m">>, weight |-> 95],
    [candidate |-> <<"n","p","r",".","o","r","g">>, weight |-> 95],
    [candidate |-> <<"p","b","s",".","o","r","g">>, weight |-> 92],
    [candidate |-> <<"n","y","t","i","m","e","s",".","c","o","m">>, weight |-> 90],
    [candidate |-> <<"w","s","j",".","c","o","m">>, weight |-> 90],
    [candidate |-> <<"w","a","s","h","i","n","g","t","o","n","p","o","s","t",".","c","o","m">>, weight |-> 90],
    [candidate |-> <<"b","l","o","o","m","b","e","r","g",".","c","o","m">>, weight |-> 88],
    [candidate |-> <<"f","i","n","a","n","c","i","a","l","t","i","m","e","s",".","c","o","m">>, weight |-> 88],
    [candidate |-> <<"e","c","o","n","o","m","i","s","t",".","c","o","m">>, weight |-> 88],
    [candidate |-> <<"t","h","e","g","u","a","r","d","i","a","n",".","c","o","m">>, weight |-> 87],
    [candidate |-> <<"u","s","a","t","o","d","a","y",".","c","o","m">>, weight |-> 80],
    [candidate |-> <<"a","b","c","n","e","w","s",".","g","o",".","c","o","m">>, weight |-> 82],
    [candidate |-> <<"c","n","n",".","c","o","m">>, weight |-> 78],
    [candidate |-> <<"c","b","s","n","e","w","s",".","c","o","m">>, weight |-> 80],
    [candidate |-> <<"n","b","c","n","e","w","s",".","c","o","m">>, weight |-> 80],
    [candidate |-> <<"a","l","j","a","z","e","e","r","a",".","c","o","m">>, weight |-> 79],
    [candidate |-> <<"f","o","r","b","e","s",".","c","o","m">>, weight |-> 72],
    [candidate |-> <<"t","e","c","h","c","r","u","n","c","h",".","c","o","m">>, weight |-> 70],
    [candidate |-> <<"t","h","e","v","e","r","g","e",".","c","o","m">>, weight |-> 70],
    [candidate |-> <<"t","h","e","h","i","n","d","u",".","c","o","m">>, weight |-> 84],
    [candidate |-> <<"i","n","d","i","a","n","e","x","p","r","e","s","s",".","c","o","m">>, weight |-> 82],
    [candidate |-> <<"n","d","t","v",".","c","o","m">>, weight |-> 76],
    [candidate |-> <<"l","i","v","e","m","i","n","t",".","c","o","m">>, weight |-> 78],
    [candidate |-> <<"h","i","n","d","u","s","t","a","n","t","i","m","e","s",".","c","o","m">>, weight |-> 76],
    [candidate |-> <<"t","i","m","e","s","o","f","i","n","d","i","a",".","i","n","d","i","a","t","i","m","e","s",".","c","o","m">>, weight |-> 68],
    [candidate |-> <<"f","i","r","s","t","p","o","s","t",".","c","o","m">>, weight |-> 62]
  >>

SOURCE_NAME_WEIGHTS == <<
    [candidate |-> <<"r","e","u","t","e","r","s">>, weight |-> 100],
    [candidate |-> <<"a","s","s","o","c","i","a","t","e","d"," ","p","r","e","s","s">>, weight |-> 100],
    [candidate |-> <<"a","p"," ","n","e","w","s">>, weight |-> 100],
    [candidate |-> <<"b","b","c">>, weight |-> 95],
    [candidate |-> <<"n","p","r">>, weight |-> 95],
    [candidate |-> <<"p","b","s">>, weight |-> 92],
    [candidate |-> <<"n","e","w"," ","y","o","r","k"," ","t","i","m","e","s">>, weight |-> 90],
    [candidate |-> <<"w","a","l","l"," ","s","t","r","e","e","t"," ","j","o","u","r","n","a","l">>, weight |-> 90],
    [candidate |-> <<"w","a","s","h","i","n","g","t","o","n"," ","p","o","s","t">>, weight |-> 90],
    [candidate |-> <<"b","l","o","o","m","b","e","r","g">>, weight |-> 88],
    [candidate |-> <<"f","i","n","a","n","c","i","a","l"," ","t","i","m","e","s">>, weight |-> 88],
    [candidate |-> <<"t","h","e"," ","e","c","o","n","o","m","i","s","t">>, weight |-> 88],
    [candidate |-> <<"t","h","e"," ","g","u","a","r","d","i","a","n">>, weight |-> 87],
    [candidate |-> <<"u","s","a"," ","t","o","d","a","y">>, weight |-> 80],
    [candidate |-> <<"a","b","c"," ","n","e","w","s">>, weight |-> 82],
    [candidate |-> <<"c","n","n">>, weight |-> 78],
    [candidate |-> <<"c","b","s"," ","n","e","w","s">>, weight |-> 80],
    [candidate |-> <<"n","b","c"," ","n","e","w","s">>, weight |-> 80],
    [candidate |-> <<"a","l"," ","j","a","z","e","e","r","a">>, weight |-> 79],
    [candidate |-> <<"f","o","r","b","e","s">>, weight |-> 72],
    [candidate |-> <<"t","e","c","h","c","r","u","n","c","h">>, weight |-> 70],
    [candidate |-> <<"t","h","e"," ","v","e","r","g","e">>, weight |-> 70],
    [candidate |-> <<"t","h","e"," ","h","i","n","d","u">>, weight |-> 84],
    [candidate |-> <<"i","n","d","i","a","n"," ","e","x","p","r","e","s","s">>, weight |-> 82],
    [candidate |-> <<"n","d","t","v">>, weight |-> 76],
    [candidate |-> <<"m","i","n","t">>, weight |-> 78],
    [candidate |-> <<"h","i","n","d","u","s","t","a","n"," ","t","i","m","e","s">>, weight |-> 76],
    [candidate |-> <<"t","i","m","e","s"," ","o","f"," ","i","n","d","i","a">>, weight |-> 68]
  >>

\* str.replace(old, ""): every non-overlapping occurrence, left to right
RECURSIVE RemoveAll(_, _)
RemoveAll(s, old) ==
    IF Len(s) < Len(old) \/ old = <<>> THEN s
    ELSE IF SubSeq(s, 1, Len(old)) = old
         THEN RemoveAll(SubSeq(s, Len(old) + 1, Len(s)), old)
         ELSE <<Head(s)>> \o RemoveAll(Tail(s), old)

\* a URL is the record urlparse makes of it; the empty URL has the empty netloc
_domain_from_url(url) ==
    IF url.netloc = <<>> THEN <<>>
    ELSE RemoveAll(Lower(url.netloc), <<"w", "w", "w", ".">>)

\* the weight of the first entry, in table order, whose domain ends the host
FirstDomainMatch(table, domain) ==
    LET matches == {i \in 1..Len(table) : EndsWith(domain, table[i].candidate)}
    IN  IF matches = {} THEN 0
        ELSE table[CHOOSE i \in matches : \A j \in matches : i <= j].weight

_weight_for_domain(domain) == FirstDomainMatch(CREDIBLE_SOURCE_WEIGHTS, domain)

\* the weight of the first entry, in table order, whose name occurs in the text
FirstNameMatch(table, normalized) ==
    LET matches == {i \in 1..Len(table) : Contains(normalized, table[i].candidate)}
    IN  IF matches = {} THEN 0
        ELSE table[CHOOSE i \in matches : \A j \in matches : i <= j].weight

_weight_for_source_name(source_name) ==
    LET normalized == Lower(Strip(source_name)) IN
    IF normalized = <<>> THEN 0
    ELSE FirstNameMatch(SOURCE_NAME_WEIGHTS, normalized)

estimate_source_trust(source_name, source_url) ==
    Max(_weight_for_domain(_domain_from_url(source_url)),
        _weight_for_source_name(source_name))

----------------------------------------------------------------------------
(* scoring.py: language risk, fake probability, verdict                   *)
(*                                                                         *)
(* Units: a fraction in [0,1] is an integer number of millionths (micro);  *)
(* evidence.confidence, which verify_claim rounds to 4 decimals, is an     *)
(* integer number of 1/10000; source trust and language risk, which are    *)
(* sums of two-decimal constants, are integer hundredths; the returned     *)
(* percentages, rounded to 2 decimals, are integer hundredths of a percent.*)

SENSATIONAL_KEYWORDS ==
    { <<"s", "h", "o", "c", "k", "i", "n", "g">>,
      <<"m", "u", "s", "t", " ", "w", "a", "t", "c", "h">>,
      <<"r", "u", "m", "o", "r">>,
      <<"u", "n", "v", "e", "r", "i", "f", "i", "e", "d">>,
      <<"l", "e", "a", "k", "e", "d">>,
      <<"e", "x", "p", "l", "o", "d", "e", "s">>,
      <<"y", "o", "u", " ", "w", "o", "n", "'", "t", " ", "b", "e", "l", "i", "e", "v", "e">>,
      <<"v", "i", "r", "a", "l">>,
      <<"b", "r", "e", "a", "k", "i", "n", "g">> }

UpperLetters == {"A", "B", "C", "D", "E", "F", "G", "H", "I", "J", "K", "L", "M", "N", "O", "P", "Q", "R", "S", "T", "U", "V", "W", "X", "Y", "Z"}

LowerLetters == {UpperToLower[c] : c \in UpperLetters}

\* str.split(): the maximal runs of non-whitespace characters, left to right
Split(s) ==
    LET starts == {i \in 1..Len(s) :
                      s[i] \notin Whitespace /\ (i = 1 \/ s[i - 1] \in Whitespace)}
        ends == {i \in 1..Len(s) :
                    s[i] \notin Whitespace /\ (i = Len(s) \/ s[i + 1] \in Whitespace)}
        Nth(S, n) == CHOOSE i \in S : Cardinality({k \in S : k < i}) = n - 1
    IN  [n \in 1..Cardinality(starts) |-> SubSeq(s, Nth(starts, n), Nth(ends, n))]

\* str.isupper(): at least one cased character and no lower-case one
IsUpper(w) ==
    /\ \E i \in 1..Len(w) : w[i] \in UpperLetters
    /\ \A i \in 1..Len(w) : w[i] \notin LowerLetters

_clamp_upper_only(value) == Min(1000000, value)

\* _clamp(value) with the default range [0.0, 1.0], in micro
_clamp(value) == Max(0, Min(1000000, value))

_language_risk_keywords_only(title) ==
    LET lower == Lower(title)
        keyword_hits == Cardinality({k \in SENSATIONAL_KEYWORDS : Contains(lower, k)})
    IN  Max(0, Min(100, keyword_hits * 8))

\* hundredths
_language_risk(title) ==
    LET lower == Lower(title)
        keyword_hits == Cardinality({k \in SENSATIONAL_KEYWORDS : Contains(lower, k)})
        exclamation_risk == IF \E i \in 1..Len(title) : title[i] = "!" THEN 15 ELSE 0
        words == Split(title)
        caps_words == {i \in 1..Len(words) : Len(words[i]) > 4 /\ IsUpper(words[i])}
        caps_risk == Min(20, Cardinality(caps_words) * 5)
    IN  Max(0, Min(100, keyword_hits * 8 + exclamation_risk + caps_risk))

platform_adjust_unsigned(platform) ==
    CASE platform = "Google News" -> 160000
      [] platform = "Hacker News" -> 60000
      [] platform = "Reddit" -> 60000
      [] platform = "X" -> 100000
      [] OTHER -> 0

\* micro
platform_adjust(platform) ==
    CASE platform = "Google News" -> -160000
      [] platform = "Hacker News" -> -60000
      [] platform = "Reddit" -> 60000
      [] platform = "X" -> 100000
      [] OTHER -> 0

\* round(x * 100, 2) of a fraction x given in micro, in hundredths of a
\* percent; a tie goes to the even neighbour
RoundPercent(micro) ==
    LET q == micro \div 100
        r == micro % 100
    IN  IF 2 * r < 100 THEN q
        ELSE IF 2 * r > 100 THEN q + 1
        ELSE IF q % 2 = 0 THEN q ELSE q + 1

\* line 71
CorroboratedTrustedSource(source_trust, evidence) ==
    source_trust >= 75 /\ evidence.credible_hits >= 1

ConfidentHighTrustSourceBelow(source_trust, evidence) ==
    source_trust >= 85 /\ evidence.confidence < 4500

\* line 73
ConfidentHighTrustSource(source_trust, evidence) ==
    source_trust >= 85 /\ evidence.confidence >= 4500

FakeProbabilityFractionWithoutBonus(platform, language_risk, source_trust, evidence) ==
    LET weak_evidence_penalty == 10000 * (10 - Min(evidence.total_hits, 10))
        low_diversity_penalty == IF evidence.source_diversity <= 1 THEN 60000 ELSE 0
        fp0 == _clamp(400000
                      - evidence.confidence * 72
                      - source_trust * 2000
                      + platform_adjust(platform)
                      + language_risk * 2000
                      + weak_evidence_penalty
                      + low_diversity_penalty)
        fp1 == IF CorroboratedTrustedSource(source_trust, evidence)
               THEN _clamp(fp0 - 100000) ELSE fp0
        fp2 == IF ConfidentHighTrustSource(source_trust, evidence)
               THEN _clamp(fp1 - 80000) ELSE fp1
    IN  fp2

\* lines 51-74: the fake-probability fraction, in micro
FakeProbabilityFraction(platform, language_risk, source_trust, evidence) ==
    LET weak_evidence_penalty == 10000 * (10 - Min(evidence.total_hits, 10))
        low_diversity_penalty == IF evidence.source_diversity <= 1 THEN 60000 ELSE 0
        corroboration_bonus == Min(evidence.credible_hits, 5) * 50000
        fp0 == _clamp(400000
                      - evidence.confidence * 72
                      - corroboration_bonus
                      - source_trust * 2000
                      + platform_adjust(platform)
                      + language_risk * 2000
                      + weak_evidence_penalty
                      + low_diversity_penalty)
        fp1 == IF CorroboratedTrustedSource(source_trust, evidence)
               THEN _clamp(fp0 - 100000) ELSE fp0
        fp2 == IF ConfidentHighTrustSource(source_trust, evidence)
               THEN _clamp(fp1 - 80000) ELSE fp1
    IN  fp2

VerdictStrictThresholds(fake_probability) ==
    IF fake_probability < 300000 THEN "Low Risk"
    ELSE IF fake_probability < 600000 THEN "Medium Risk"
    ELSE "High Risk"

\* lines 96-101
Verdict(fake_probability) ==
    IF fake_probability <= 300000 THEN "Low Risk"
    ELSE IF fake_probability <= 600000 THEN "Medium Risk"
    ELSE "High Risk"

\* line 49: estimate_source_trust(trend.source_name, trend.source_url or trend.url)
TrendSourceTrust(trend) ==
    estimate_source_trust(
        trend.source_name,
        IF trend.source_url.netloc # <<>> THEN trend.source_url ELSE trend.url)

\* lines 33-41 and 90: spread_index >= 70.  trend.age is time.time() -
\* created_utc in seconds and trend.engagement is metrics["engagement"].
\* round(100 * (1 - exp(-velocity / 120)), 2) >= 70 holds from the velocity
\* -120 * ln(0.30005) = 144.4567... on; the velocity is compared in hundredths
\* with 144.46.
HighVelocity(trend) ==
    trend.engagement * 360000 >= 14446 * Max(3600, trend.age)

\* `if condition: reasons.append(reason)`, as what is appended
IfReason(condition, reason) == IF condition THEN <<reason>> ELSE <<>>

\* lines 79-84
CorroborationReason(evidence) ==
    IF evidence.credible_hits >= 3
    THEN "Multiple high-trust outlets reported related claims."
    ELSE IF evidence.credible_hits = 0
    THEN "Strong corroboration was limited in current checks."
    ELSE "Partial corroboration from trusted outlets was found."

ReasonsNotesReversed(trend, language_risk, source_trust, evidence) ==
    <<CorroborationReason(evidence)>>
    \o IfReason(source_trust >= 80, "Source has a strong historical trust profile.")
    \o IfReason(HighVelocity(trend), "High social velocity suggests rapid spread.")
    \o IfReason(language_risk >= 20, "Headline wording appears potentially sensational.")
    \o IfReason(evidence.source_diversity <= 1, "Low source diversity increases uncertainty.")
    \o <<"Assessment is probabilistic and may update with new evidence.">>

\* lines 78-94
Reasons(trend, language_risk, source_trust, evidence) ==
    <<CorroborationReason(evidence)>>
    \o IfReason(evidence.source_diversity <= 1, "Low source diversity increases uncertainty.")
    \o IfReason(language_risk >= 20, "Headline wording appears potentially sensational.")
    \o IfReason(HighVelocity(trend), "High social velocity suggests rapid spread.")
    \o IfReason(source_trust >= 80, "Source has a strong historical trust profile.")
    \o <<"Assessment is probabilistic and may update with new evidence.">>

\* lines 51-111, for the language risk and source trust of lines 46 and 49 and
\* the evidence that verify_claim(trend.title) returned on line 45
ScoreTrend(trend, language_risk, source_trust, evidence) ==
    LET fake_probability ==
            FakeProbabilityFraction(trend.platform, language_risk, source_trust, evidence)
        credibility_score == _clamp(1000000 - fake_probability)
    IN  [ fraction |-> fake_probability,
          reasons |-> Reasons(trend, language_risk, source_trust, evidence),
          fake_probability |-> RoundPercent(fake_probability),
          credibility_score |-> RoundPercent(credibility_score),
          verdict |-> Verdict(fake_probability),
          language_risk |-> language_risk,
          source_trust |-> source_trust ]

analyze_trend(trend, evidence) ==
    ScoreTrend(trend, _language_risk(trend.title), TrendSourceTrust(trend), evidence)

----------------------------------------------------------------------------
(* Inputs of the scoring specification *)

Platforms == {"Google News", "Hacker News", "Reddit", "X", "Other"}

Url(netloc) == [scheme |-> "https", netloc |-> netloc]

NoUrl == [scheme |-> "", netloc |-> <<>>]

ShockingTitle == <<"S", "h", "o", "c", "k", "i", "n", "g", "!", " ", "M", "a", "r", "k", "e", "t", " ", "E", "X", "P", "L", "O", "D", "E", "S", " ", "a", "f", "t", "e", "r", " ", "r", "u", "m", "o", "r">>

ScoreTitles ==
    { ShockingTitle,
      <<"F", "e", "d", " ", "h", "o", "l", "d", "s">>,
      <<"V", "i", "r", "a", "l", "!">>,
      <<"L", "E", "A", "K", "E", "D", " ", "R", "U", "M", "O", "R">>,
      <<"B", "R", "E", "A", "K", "I", "N", "G", ":", " ", "y", "o", "u", " ", "w", "o", "n", "'", "t", " ", "b", "e", "l", "i", "e", "v", "e", " ", "v", "i", "r", "a", "l", " ", "L", "E", "A", "K", "E", "D", " ", "r", "u", "m", "o", "r", " ", "E", "X", "P", "L", "O", "D", "E", "S", "!", " ", "s", "h", "o", "c", "k", "i", "n", "g", " ", "U", "N", "V", "E", "R", "I", "F", "I", "E", "D", " ", "T", "A", "P", "E", "S", " ", "M", "U", "S", "T", " ", "W", "A", "T", "C", "H">> }

\* (source_name, source_url) as the fetchers set them
ScoreSources ==
    { [source_name |-> <<"R", "e", "u", "t", "e", "r", "s">>, source_url |-> Url(<<"w", "w", "w", ".", "r", "e", "u", "t", "e", "r", "s", ".", "c", "o", "m">>)],
      [source_name |-> <<>>, source_url |-> Url(<<"e", "x", "a", "m", "p", "l", "e", ".", "o", "r", "g">>)],
      [source_name |-> <<"C", "N", "N">>, source_url |-> Url(<<"e", "d", "i", "t", "i", "o", "n", ".", "c", "n", "n", ".", "c", "o", "m">>)],
      [source_name |-> <<"F", "o", "r", "b", "e", "s">>, source_url |-> Url(<<"f", "o", "r", "b", "e", "s", ".", "c", "o", "m">>)],
      [source_name |-> <<"T", "h", "e", " ", "G", "u", "a", "r", "d", "i", "a", "n">>, source_url |-> Url(<<"w", "w", "w", ".", "t", "h", "e", "g", "u", "a", "r", "d", "i", "a", "n", ".", "c", "o", "m">>)],
      [source_name |-> <<" ", "B", "B", "C", " ", "N", "e", "w", "s", " ">>, source_url |-> Url(<<"n", "e", "w", "s", ".", "g", "o", "o", "g", "l", "e", ".", "c", "o", "m">>)] }

CredibleHits == {0, 1, 4, 6}

TotalHits == {0, 4, 8}

Diversities == {1, 2}

\* 0.0, 0.0111, 0.4499, 0.45, 0.5556, 1.0
Confidences == {0, 111, 4499, 4500, 5556, 10000}

\* metrics["engagement"] and the age in seconds: 500 an hour, and 40 in two hours
Velocities == { [engagement |-> 500, age |-> 3600], [engagement |-> 40, age |-> 7200] }

NoResult ==
    [ fraction |-> 0, reasons |-> <<>>, fake_probability |-> 0, credibility_score |-> 0,
      verdict |-> "", language_risk |-> 0, source_trust |-> 0 ]

NoEvidence ==
    [ credible_hits |-> 0, total_hits |-> 0, source_diversity |-> 0, confidence |-> 0 ]

\* the hit counts are drawn independently of each other: a superset of the
\* summaries verify_claim builds
ScoreInit ==
    /\ s_pc = "ready"
    /\ \E platform \in Platforms, title \in ScoreTitles, source \in ScoreSources,
          velocity \in Velocities :
          s_trend = [ platform |-> platform, title |-> title,
                      source_name |-> source.source_name,
                      source_url |-> source.source_url,
                      url |-> Url(<<"t", ".", "c", "o">>),
                      engagement |-> velocity.engagement, age |-> velocity.age ]
    /\ s_evidence \in [ credible_hits : CredibleHits, total_hits : TotalHits,
                        source_diversity : Diversities, confidence : {0} ]
                      \cup {NoEvidence}
    /\ s_result = NoResult
    /\ s_prev = [evidence |-> NoEvidence, result |-> NoResult]

ScoreIdle ==
    /\ s_pc = "idle"
    /\ s_trend = [ platform |-> "", title |-> <<>>, source_name |-> <<>>,
                   source_url |-> NoUrl, url |-> NoUrl, engagement |-> 0, age |-> 0 ]
    /\ s_evidence = NoEvidence
    /\ s_result = NoResult
    /\ s_prev = [evidence |-> NoEvidence, result |-> NoResult]

\* one call of analyze_trend on the item; the evidence lookup returns the
\* item's hit counts with some confidence.  The item is scored twice, and
\* s_prev keeps the first call's evidence and result.
AnalyzeTrend ==
    /\ s_pc \in {"ready", "scored"}
    /\ LET language_risk == _language_risk(s_trend.title)
           source_trust == TrendSourceTrust(s_trend)
       IN  \E confidence \in Confidences :
              LET evidence == [s_evidence EXCEPT !.confidence = confidence] IN
              /\ s_evidence' = evidence
              /\ s_result' = ScoreTrend(s_trend, language_risk, source_trust, evidence)
    /\ s_prev' = IF s_pc = "scored"
                 THEN [evidence |-> s_evidence, result |-> s_result]
                 ELSE s_prev
    /\ s_pc' = IF s_pc = "ready" THEN "scored" ELSE "rescored"
    /\ UNCHANGED s_trend

----------------------------------------------------------------------------
(* Inputs of the dedupe/rank specification *)

MaxItems == 3
MaxCap == 3

Engagements == {0, 1}

CreatedTimes == {0, 1}

\* "A" and "a!" share the key "a"; " B " has the key "b"; "a b" keeps its inner
\* space; "!?" has the empty key
Titles ==
    { <<"A">>, <<"a", "!">>, <<" ", "B", " ">>, <<"a", " ", "b">>, <<"!", "?">> }

TitleEngCreated ==
    [title : Titles, engagement : Engagements, created_utc : CreatedTimes]

\* the item at position i of the input carries id i
WithIds(seq) ==
    [i \in 1..Len(seq) |->
        [id |-> i, title |-> seq[i].title, engagement |-> seq[i].engagement,
         created_utc |-> seq[i].created_utc]]

DedupeInit ==
    /\ d_pc = "call"
    /\ \E n \in 0..MaxItems :
          \E s \in [1..n -> TitleEngCreated] : d_trends = WithIds(s)
    /\ d_limit = 0
    /\ d_out = <<>>

DedupeIdle ==
    /\ d_pc = "idle"
    /\ d_trends = <<>>
    /\ d_limit = 0
    /\ d_out = <<>>

CallDedupeAndRank ==
    /\ d_pc = "call"
    /\ \E limit \in 0..MaxCap :
          /\ d_limit' = limit
          /\ d_out' = _dedupe_and_rank(d_trends, limit)
    /\ d_pc' = "done"
    /\ UNCHANGED d_trends

----------------------------------------------------------------------------
(* Request threads, the wall clock and the category list *)

NumThreads == 2

Threads == 1..NumThreads

\* the holder of a threading.Lock that is free
NoThread == 0

LockAcquirableWhileHeld(holder) == TRUE

\* `with lock:` blocks until no thread holds the lock
LockAcquirable(holder) == holder = NoThread

\* a reading of the clock later than the current one
Tick(times) == \E t \in times : t > now /\ now' = t

\* social_fetcher.py
CATEGORY_ORDER ==
    << <<"a", "l", "l">>,
       <<"l", "o", "c", "a", "l">>,
       <<"i", "n", "d", "i", "a">>,
       <<"w", "o", "r", "l", "d">>,
       <<"e", "n", "t", "e", "r", "t", "a", "i", "n", "m", "e", "n", "t">>,
       <<"h", "e", "a", "l", "t", "h">>,
       <<"t", "r", "e", "n", "d", "i", "n", "g">>,
       <<"s", "p", "o", "r", "t", "s">>,
       <<"e", "s", "p", "o", "r", "t", "s">>,
       <<"f", "o", "o", "d">>,
       <<"e", "v", "e", "n", "t", "s">> >>

normalize_category(category) ==
    IF category = <<>> THEN <<"a", "l", "l">>
    ELSE LET normalized == Lower(Strip(category)) IN
         IF \E i \in 1..Len(CATEGORY_ORDER) : CATEGORY_ORDER[i] = normalized
         THEN normalized
         ELSE <<"a", "l", "l">>

----------------------------------------------------------------------------
(* analyze and the result cache (main.py) *)

CACHE_TTL_SECONDS == 180

\* lines 83-85: f"{normalized_category}:{limit}:{normalized_query}"
cache_key(request) ==
    <<normalize_category(request.category), request.limit, Lower(Strip(request.query))>>

\* raw query parameters: the first two differ in case and padding only
AnalyzeRequests ==
    { [category |-> <<"S", "p", "o", "r", "t", "s">>, limit |-> 10, query |-> <<" ", "A", "I", " ">>],
      [category |-> <<" ", "s", "p", "o", "r", "t", "s", " ">>, limit |-> 10, query |-> <<"a", "i">>],
      [category |-> <<"b", "o", "g", "u", "s">>, limit |-> 10, query |-> <<>>] }

AnalyzeKeys == {cache_key(request) : request \in AnalyzeRequests}

\* the clock readings at which requests act
AnalyzeTimes == {0, 180, 181}

NoRequest == [category |-> <<>>, limit |-> 0, query |-> <<>>, refresh |-> FALSE]

\* None
NoPayload == [generated_at |-> -1, selected_category |-> <<>>, by |-> NoThread]

\* _analysis_cache.get(cache_key, {}) of a key never stored, as lines 89-90
\* read it: payload None and generated_at 0.0
EmptyBucket == [generated_at |-> 0, payload |-> NoPayload]

ResultCacheHitStrictlyYounger(refresh, cache_bucket, clock) ==
    /\ ~refresh
    /\ cache_bucket.payload # NoPayload
    /\ clock - cache_bucket.generated_at < CACHE_TTL_SECONDS

\* lines 91-95
ResultCacheHit(refresh, cache_bucket, clock) ==
    /\ ~refresh
    /\ cache_bucket.payload # NoPayload
    /\ clock - cache_bucket.generated_at <= CACHE_TTL_SECONDS

\* lines 50-73: the response of a fresh fetch-and-score; generated_at and the
\* computing request tell one computation's response from another's
_fresh_payload(t, request) ==
    [ generated_at |-> now,
      selected_category |-> normalize_category(request.category),
      by |-> t ]

AnalyzeInit ==
    /\ _cache_lock = NoThread
    /\ _analysis_cache = [key \in AnalyzeKeys |-> EmptyBucket]
    /\ a_pc = [t \in Threads |-> "idle"]
    /\ a_req = [t \in Threads |-> NoRequest]
    /\ a_payload = [t \in Threads |-> NoPayload]
    /\ a_fetched = [t \in Threads |-> FALSE]

AnalyzeIdle ==
    /\ _cache_lock = NoThread
    /\ _analysis_cache = [key \in AnalyzeKeys |-> EmptyBucket]
    /\ a_pc = [t \in Threads |-> "off"]
    /\ a_req = [t \in Threads |-> NoRequest]
    /\ a_payload = [t \in Threads |-> NoPayload]
    /\ a_fetched = [t \in Threads |-> FALSE]

\* lines 77-85: a request arrives on a free worker thread
AnalyzeCall(t) ==
    /\ a_pc[t] = "idle"
    /\ \E request \in AnalyzeRequests, refresh \in BOOLEAN :
          a_req' = [a_req EXCEPT ![t] =
                       [ category |-> request.category, limit |-> request.limit,
                         query |-> request.query, refresh |-> refresh ]]
    /\ a_pc' = [a_pc EXCEPT ![t] = "acquire_check"]
    /\ UNCHANGED <<now, _cache_lock, _analysis_cache, a_payload, a_fetched>>
    /\ UNCHANGED <<dedupeVars, scoreVars, verifyVars, metadataVars, fetchVars, enrichVars, balanceVars, closeVars, payloadVars>>

\* line 86: with _cache_lock
AnalyzeAcquireCheck(t) ==
    /\ a_pc[t] = "acquire_check"
    /\ LockAcquirable(_cache_lock)
    /\ _cache_lock' = t
    /\ a_pc' = [a_pc EXCEPT ![t] = "check"]
    /\ UNCHANGED <<now, _analysis_cache, a_req, a_payload, a_fetched>>
    /\ UNCHANGED <<dedupeVars, scoreVars, verifyVars, metadataVars, fetchVars, enrichVars, balanceVars, closeVars, payloadVars>>

\* lines 87-96, and the release of the lock on leaving the with block
AnalyzeCheck(t) ==
    /\ a_pc[t] = "check"
    /\ LET cache_bucket == _analysis_cache[cache_key(a_req[t])] IN
       IF ResultCacheHit(a_req[t].refresh, cache_bucket, now)
       THEN /\ a_payload' = [a_payload EXCEPT ![t] = cache_bucket.payload]
            /\ a_pc' = [a_pc EXCEPT ![t] = "done"]
       ELSE /\ a_pc' = [a_pc EXCEPT ![t] = "fresh"]
            /\ UNCHANGED a_payload
    /\ _cache_lock' = NoThread
    /\ UNCHANGED <<now, _analysis_cache, a_req, a_fetched>>
    /\ UNCHANGED <<dedupeVars, scoreVars, verifyVars, metadataVars, fetchVars, enrichVars, balanceVars, closeVars, payloadVars>>

\* line 98
AnalyzeFresh(t) ==
    /\ a_pc[t] = "fresh"
    /\ a_payload' = [a_payload EXCEPT ![t] = _fresh_payload(t, a_req[t])]
    /\ a_fetched' = [a_fetched EXCEPT ![t] = TRUE]
    /\ a_pc' = [a_pc EXCEPT ![t] = "acquire_store"]
    /\ UNCHANGED <<now, _cache_lock, _analysis_cache, a_req>>
    /\ UNCHANGED <<dedupeVars, scoreVars, verifyVars, metadataVars, fetchVars, enrichVars, balanceVars, closeVars, payloadVars>>

\* line 99: with _cache_lock
AnalyzeAcquireStore(t) ==
    /\ a_pc[t] = "acquire_store"
    /\ LockAcquirable(_cache_lock)
    /\ _cache_lock' = t
    /\ a_pc' = [a_pc EXCEPT ![t] = "store"]
    /\ UNCHANGED <<now, _analysis_cache, a_req, a_payload, a_fetched>>
    /\ UNCHANGED <<dedupeVars, scoreVars, verifyVars, metadataVars, fetchVars, enrichVars, balanceVars, closeVars, payloadVars>>

\* lines 100-104, and the release of the lock
AnalyzeStore(t) ==
    /\ a_pc[t] = "store"
    /\ _analysis_cache' = [_analysis_cache EXCEPT ![cache_key(a_req[t])] =
                              [generated_at |-> now, payload |-> a_payload[t]]]
    /\ _cache_lock' = NoThread
    /\ a_pc' = [a_pc EXCEPT ![t] = "done"]
    /\ UNCHANGED <<now, a_req, a_payload, a_fetched>>
    /\ UNCHANGED <<dedupeVars, scoreVars, verifyVars, metadataVars, fetchVars, enrichVars, balanceVars, closeVars, payloadVars>>

\* lines 96 and 104: the response is sent and the thread is free again
AnalyzeReturn(t) ==
    /\ a_pc[t] = "done"
    /\ a_pc' = [a_pc EXCEPT ![t] = "idle"]
    /\ a_req' = [a_req EXCEPT ![t] = NoRequest]
    /\ a_payload' = [a_payload EXCEPT ![t] = NoPayload]
    /\ a_fetched' = [a_fetched EXCEPT ![t] = FALSE]
    /\ UNCHANGED <<now, _cache_lock, _analysis_cache>>
    /\ UNCHANGED <<dedupeVars, scoreVars, verifyVars, metadataVars, fetchVars, enrichVars, balanceVars, closeVars, payloadVars>>

\* time passes while requests are in flight
AnalyzeTick ==
    /\ \E t \in Threads : a_pc[t] # "off"
    /\ Tick(AnalyzeTimes)
    /\ UNCHANGED analyzeVars
    /\ UNCHANGED <<dedupeVars, scoreVars, verifyVars, metadataVars, fetchVars, enrichVars, balanceVars, closeVars, payloadVars>>

----------------------------------------------------------------------------
(* verify_claim and the evidence cache (verifier.py) *)

VERIFY_CACHE_TTL_SECONDS == 900

\* the default of the max_results parameter; no caller passes another value
max_results == 8

\* line 125: f"{query.strip().lower()}:{max_results}"
verify_key(query) == <<Lower(Strip(query)), max_results>>

\* round(num / den, 0) of a non-negative fraction; a tie goes to the even
\* neighbour
RoundHalfEven(num, den) ==
    LET q == num \div den
        r == num % den
    IN  IF 2 * r < den THEN q
        ELSE IF 2 * r > den THEN q + 1
        ELSE IF q % 2 = 0 THEN q ELSE q + 1

ZeroEvidenceWithOneHit(query) ==
    [ query |-> query, credible_hits |-> 0, total_hits |-> 1,
      source_diversity |-> 0, confidence |-> 0, articles |-> <<>> ]

\* lines 142-149 and 156-163
ZeroEvidence(query) ==
    [ query |-> query, credible_hits |-> 0, total_hits |-> 0,
      source_diversity |-> 0, confidence |-> 0, articles |-> <<>> ]

\* lines 173-193: one <item> of the feed, given by the text and the url
\* attribute of its <source> element and by its <link>
EvidenceArticle(item) ==
    LET source_name == Strip(item.source_name)
        source_domain == _domain_from_url(item.source_url)
        domain == IF source_domain # <<>> THEN source_domain
                  ELSE _domain_from_url(item.link)
        domain_weight == _weight_for_domain(domain)
        source_weight == IF domain_weight = 0
                         THEN _weight_for_source_name(source_name)
                         ELSE domain_weight
    IN  [ source |-> IF source_name # <<>> THEN source_name
                     ELSE IF domain # <<>> THEN domain
                     ELSE <<"U", "n", "k", "n", "o", "w", "n">>,
          source_url |-> item.source_url,
          article_url |-> item.link,
          source_weight |-> source_weight ]

RECURSIVE SumWeights(_)
SumWeights(articles) ==
    IF articles = <<>> THEN 0
    ELSE Head(articles).source_weight + SumWeights(Tail(articles))

CountsTowardDiversityIfCredible(article) == article.source_weight >= 75

\* line 197
CountsTowardDiversity(article) == article.source_weight > 0

\* lines 200-209 and round(confidence, 4) of line 216, in 1/10000; the
\* weighted sum is in hundredths
EvidenceConfidence(credible_hits, weighted_sum, diversity, total_hits) ==
    IF total_hits = 0 THEN 0
    ELSE LET den == 6 * Max(total_hits, 1)
             num == 6 * (5500 * credible_hits + 35 * weighted_sum)
                    + 1000 * Min(diversity, 6) * Max(total_hits, 1)
         IN  RoundHalfEven(Min(10000 * den, num), den)

\* lines 168-218
SummarizeFeed(query, items) ==
    LET kept == SliceTo(items, max_results)
        articles == [i \in 1..Len(kept) |-> EvidenceArticle(kept[i])]
        credible_hits ==
            Cardinality({i \in 1..Len(articles) : articles[i].source_weight >= 75})
        weighted_sum == SumWeights(articles)
        diversity ==
            Cardinality({articles[i].source :
                            i \in {j \in 1..Len(articles) : CountsTowardDiversity(articles[j])}})
        total_hits == Len(articles)
    IN  [ query |-> query,
          credible_hits |-> credible_hits,
          total_hits |-> total_hits,
          source_diversity |-> diversity,
          confidence |-> EvidenceConfidence(credible_hits, weighted_sum, diversity, total_hits),
          articles |-> SliceTo(articles, 8) ]

\* lines 131-218: what the lookup makes of the collaborator's answer
EvidenceFromFetch(query, outcome) ==
    IF outcome.kind \in {"error", "no_channel"} THEN ZeroEvidence(query)
    ELSE SummarizeFeed(query, outcome.items)

\* <item> elements as Google News RSS delivers them
RssReuters ==
    [ source_name |-> <<"R", "e", "u", "t", "e", "r", "s">>,
      source_url |-> Url(<<"w", "w", "w", ".", "r", "e", "u", "t", "e", "r", "s", ".", "c", "o", "m">>),
      link |-> Url(<<"n", "e", "w", "s", ".", "g", "o", "o", "g", "l", "e", ".", "c", "o", "m">>) ]

RssBlog ==
    [ source_name |-> <<"D", "a", "i", "l", "y", " ", "B", "l", "o", "g">>,
      source_url |-> Url(<<"d", "a", "i", "l", "y", "b", "l", "o", "g", ".", "e", "x", "a", "m", "p", "l", "e">>),
      link |-> Url(<<"n", "e", "w", "s", ".", "g", "o", "o", "g", "l", "e", ".", "c", "o", "m">>) ]

RssForbes ==
    [ source_name |-> <<"F", "o", "r", "b", "e", "s">>,
      source_url |-> Url(<<"w", "w", "w", ".", "f", "o", "r", "b", "e", "s", ".", "c", "o", "m">>),
      link |-> Url(<<"n", "e", "w", "s", ".", "g", "o", "o", "g", "l", "e", ".", "c", "o", "m">>) ]

\* a <source> element without the url attribute
RssBbcByName ==
    [ source_name |-> <<" ", "B", "B", "C", " ", "N", "e", "w", "s", " ">>,
      source_url |-> NoUrl,
      link |-> Url(<<"n", "e", "w", "s", ".", "g", "o", "o", "g", "l", "e", ".", "c", "o", "m">>) ]

\* an article of one outlet carried by another: the name is in the name
\* table with 1.0, the domain in the domain table with 0.72
RssSyndicated ==
    [ source_name |-> <<"R", "e", "u", "t", "e", "r", "s">>,
      source_url |-> Url(<<"w", "w", "w", ".", "f", "o", "r", "b", "e", "s", ".", "c", "o", "m">>),
      link |-> Url(<<"n", "e", "w", "s", ".", "g", "o", "o", "g", "l", "e", ".", "c", "o", "m">>) ]

RssItems == {RssReuters, RssBlog, RssForbes, RssBbcByName, RssSyndicated}

MaxFeedItems == 2

\* a feed longer than max_results
LongFeed == [i \in 1..(max_results + 1) |-> IF i = 1 THEN RssBlog ELSE RssReuters]

Feeds == UNION {[1..n -> RssItems] : n \in 0..MaxFeedItems} \cup {LongFeed}

\* the answers two concurrent lookups choose from
ConcurrentFeeds == {<<>>, <<RssReuters, RssBlog>>}

FetchOutcomes(feeds) ==
    {[kind |-> "error", items |-> <<>>], [kind |-> "no_channel", items |-> <<>>]}
    \cup {[kind |-> "ok", items |-> feed] : feed \in feeds}

\* claims as the scoring stage passes them: two spellings of one key
VerifyQueries == {<<"F", "e", "d">>, <<" ", "f", "e", "d", " ">>}

VerifyKeys == {verify_key(query) : query \in VerifyQueries}

VerifyTimes == {0, 899, 900, 901}

\* None
NoCached == <<>>

NoEvidenceSummary == ZeroEvidence(<<>>)

VerifyInit(threads) ==
    /\ _verify_cache_lock = NoThread
    /\ _verify_cache = [key \in VerifyKeys |-> NoCached]
    /\ v_pc = [t \in Threads |-> IF t \in threads THEN "idle" ELSE "off"]
    /\ v_query = [t \in Threads |-> <<>>]
    /\ v_result = [t \in Threads |-> NoEvidenceSummary]
    /\ v_fetched = [t \in Threads |-> FALSE]
    /\ v_answer = [t \in Threads |-> "none"]

VerifyIdle == VerifyInit({})

\* another thread is inside verify_claim or may enter it
VerifyConcurrent(t) == \E u \in Threads \ {t} : v_pc[u] # "off"

\* lines 124-125: analyze_trend calls verify_claim(trend.title)
VerifyCall(t) ==
    /\ v_pc[t] = "idle"
    /\ \E query \in VerifyQueries : v_query' = [v_query EXCEPT ![t] = query]
    /\ v_pc' = [v_pc EXCEPT ![t] = "acquire_check"]
    /\ UNCHANGED <<now, _verify_cache_lock, _verify_cache, v_result, v_fetched, v_answer>>
    /\ UNCHANGED <<dedupeVars, scoreVars, analyzeVars, metadataVars, fetchVars, enrichVars, balanceVars, closeVars, payloadVars>>

\* line 126: with _verify_cache_lock
VerifyAcquireCheck(t) ==
    /\ v_pc[t] = "acquire_check"
    /\ LockAcquirable(_verify_cache_lock)
    /\ _verify_cache_lock' = t
    /\ v_pc' = [v_pc EXCEPT ![t] = "check"]
    /\ UNCHANGED <<now, _verify_cache, v_query, v_result, v_fetched, v_answer>>
    /\ UNCHANGED <<dedupeVars, scoreVars, analyzeVars, metadataVars, fetchVars, enrichVars, balanceVars, closeVars, payloadVars>>

EvidenceCacheHitAtTtl(cached, clock) ==
    cached # NoCached /\ clock - cached[1] <= VERIFY_CACHE_TTL_SECONDS

\* line 128; a stored entry is the pair (timestamp, result)
EvidenceCacheHit(cached, clock) ==
    cached # NoCached /\ clock - cached[1] < VERIFY_CACHE_TTL_SECONDS

\* lines 127-129, and the release of the lock
VerifyCheck(t) ==
    /\ v_pc[t] = "check"
    /\ LET cached == _verify_cache[verify_key(v_query[t])] IN
       IF EvidenceCacheHit(cached, now)
       THEN /\ v_result' = [v_result EXCEPT ![t] = cached[2]]
            /\ v_pc' = [v_pc EXCEPT ![t] = "done"]
       ELSE /\ v_pc' = [v_pc EXCEPT ![t] = "fetch"]
            /\ UNCHANGED v_result
    /\ _verify_cache_lock' = NoThread
    /\ UNCHANGED <<now, _verify_cache, v_query, v_fetched, v_answer>>
    /\ UNCHANGED <<dedupeVars, scoreVars, analyzeVars, metadataVars, fetchVars, enrichVars, balanceVars, closeVars, payloadVars>>

\* lines 131-218: the RSS search is answered with an error, with XML that
\* has no channel, or with a feed
VerifyFetch(t) ==
    /\ v_pc[t] = "fetch"
    /\ \E outcome \in FetchOutcomes(IF VerifyConcurrent(t) THEN ConcurrentFeeds ELSE Feeds) :
          /\ v_result' = [v_result EXCEPT ![t] = EvidenceFromFetch(v_query[t], outcome)]
          /\ v_answer' = [v_answer EXCEPT ![t] = outcome.kind]
    /\ v_fetched' = [v_fetched EXCEPT ![t] = TRUE]
    /\ v_pc' = [v_pc EXCEPT ![t] = "acquire_store"]
    /\ UNCHANGED <<now, _verify_cache_lock, _verify_cache, v_query>>
    /\ UNCHANGED <<dedupeVars, scoreVars, analyzeVars, metadataVars, fetchVars, enrichVars, balanceVars, closeVars, payloadVars>>

\* lines 150, 164 and 219: with _verify_cache_lock
VerifyAcquireStore(t) ==
    /\ v_pc[t] = "acquire_store"
    /\ LockAcquirable(_verify_cache_lock)
    /\ _verify_cache_lock' = t
    /\ v_pc' = [v_pc EXCEPT ![t] = "store"]
    /\ UNCHANGED <<now, _verify_cache, v_query, v_result, v_fetched, v_answer>>
    /\ UNCHANGED <<dedupeVars, scoreVars, analyzeVars, metadataVars, fetchVars, enrichVars, balanceVars, closeVars, payloadVars>>

\* lines 151-152, 165-166 and 220-221, and the release of the lock
VerifyStore(t) ==
    /\ v_pc[t] = "store"
    /\ _verify_cache' = [_verify_cache EXCEPT ![verify_key(v_query[t])] =
                            <<now, v_result[t]>>]
    /\ _verify_cache_lock' = NoThread
    /\ v_pc' = [v_pc EXCEPT ![t] = "done"]
    /\ UNCHANGED <<now, v_query, v_result, v_fetched, v_answer>>
    /\ UNCHANGED <<dedupeVars, scoreVars, analyzeVars, metadataVars, fetchVars, enrichVars, balanceVars, closeVars, payloadVars>>

\* the evidence is handed to the caller and the thread takes the next item
VerifyReturn(t) ==
    /\ v_pc[t] = "done"
    /\ v_pc' = [v_pc EXCEPT ![t] = "idle"]
    /\ v_query' = [v_query EXCEPT ![t] = <<>>]
    /\ v_result' = [v_result EXCEPT ![t] = NoEvidenceSummary]
    /\ v_fetched' = [v_fetched EXCEPT ![t] = FALSE]
    /\ v_answer' = [v_answer EXCEPT ![t] = "none"]
    /\ UNCHANGED <<now, _verify_cache_lock, _verify_cache>>
    /\ UNCHANGED <<dedupeVars, scoreVars, analyzeVars, metadataVars, fetchVars, enrichVars, balanceVars, closeVars, payloadVars>>

VerifyTick ==
    /\ \E t \in Threads : v_pc[t] # "off"
    /\ Tick(VerifyTimes)
    /\ UNCHANGED verifyVars
    /\ UNCHANGED <<dedupeVars, scoreVars, analyzeVars, metadataVars, fetchVars, enrichVars, balanceVars, closeVars, payloadVars>>

----------------------------------------------------------------------------
(* _read_article_metadata and the metadata cache (social_fetcher.py) *)

METADATA_CACHE_TTL_SECONDS == 1800

\* a link with a path; UrlText is the part of its text after "https://"
PageUrl(netloc, path) == [scheme |-> "https", netloc |-> netloc, path |-> path]

NoPageUrl == [scheme |-> "", netloc |-> <<>>, path |-> <<>>]

UrlText(url) == url.netloc \o url.path

\* the characters Char(i) of the positions i of s that satisfy Keep, in order
SubstituteAt(s, Keep(_), Char(_)) ==
    LET kept == SelectSeq([i \in 1..Len(s) |-> i], Keep)
    IN  [k \in 1..Len(kept) |-> Char(kept[k])]

\* html.unescape, for the one character reference the pages use: "&amp;"
\* becomes "&", which drops the four characters after the ampersand
HtmlUnescape(s) ==
    LET InReference(i) ==
            \E k \in 1..4 :
                /\ i - k >= 1
                /\ i - k + 4 <= Len(s)
                /\ SubSeq(s, i - k, i - k + 4) = <<"&", "a", "m", "p", ";">>
    IN  SubstituteAt(s, LAMBDA i : ~InReference(i), LAMBDA i : s[i])

\* re.sub(r"\s+", " ", s): a run of whitespace becomes one space
CollapseWhitespace(s) ==
    SubstituteAt(s,
                 LAMBDA i : s[i] \notin Whitespace \/ i = 1 \/ s[i - 1] \notin Whitespace,
                 LAMBDA i : IF s[i] \in Whitespace THEN " " ELSE s[i])

\* re.sub(r"<[^>]+>", " ", s): scanning from the left, a "<" that is followed
\* by at least one character other than ">" and then by ">" opens a tag, and
\* the tag becomes one space.  Position i lies in a tag exactly when the
\* first "<" after the last ">" before i opens one that reaches i.
StripTags(s) ==
    LET LastGtBefore(i) ==
            IF \E j \in 1..(i - 1) : s[j] = ">"
            THEN CHOOSE j \in 1..(i - 1) :
                    s[j] = ">" /\ \A k \in (j + 1)..(i - 1) : s[k] # ">"
            ELSE 0
        Opens(i) == {j \in (LastGtBefore(i) + 1)..i : s[j] = "<"}
        Open(i) == CHOOSE j \in Opens(i) : \A k \in Opens(i) : j <= k
        Closes(i) == {j \in i..Len(s) : s[j] = ">"}
        Close(i) == CHOOSE j \in Closes(i) : \A k \in Closes(i) : j <= k
        InTag(i) ==
            /\ Opens(i) # {}
            /\ Closes(i) # {}
            /\ Close(i) > Open(i) + 1
    IN  SubstituteAt(s,
                     LAMBDA i : ~InTag(i) \/ Open(i) = i,
                     LAMBDA i : IF InTag(i) THEN " " ELSE s[i])

\* lines 226-232
_strip_html(raw_html) ==
    IF raw_html = <<>> THEN <<>>
    ELSE Strip(CollapseWhitespace(HtmlUnescape(StripTags(raw_html))))

\* lines 235-239
_compact_text(text, max_len) ==
    LET cleaned == Strip(CollapseWhitespace(text)) IN
    IF Len(cleaned) <= max_len THEN cleaned
    ELSE RStrip(SubSeq(cleaned, 1, max_len - 3)) \o <<".", ".", ".">>

\* lines 265-276, given the content attribute of the first matching <meta>
\* tag (empty when no tag matches)
_extract_meta_tag_value(content) == HtmlUnescape(Strip(content))

\* lines 279-283, given the text between <title> and </title>
_extract_title_tag(title) == _compact_text(_strip_html(title), 180)

\* lines 286-299, given the texts between <p> and </p> in page order
RECURSIVE _extract_first_paragraph(_)
_extract_first_paragraph(paragraphs) ==
    IF paragraphs = <<>> THEN <<>>
    ELSE LET candidate == _compact_text(_strip_html(Head(paragraphs)), 240)
             lowered == Lower(candidate)
         IN  IF \/ Len(candidate) < 70
                \/ Contains(lowered, <<"j", "a", "v", "a", "s", "c", "r", "i", "p", "t">>)
                \/ Contains(lowered, <<"c", "o", "o", "k", "i", "e">>)
                \/ Contains(lowered, <<"s", "u", "b", "s", "c", "r", "i", "b", "e">>)
             THEN _extract_first_paragraph(Tail(paragraphs))
             ELSE candidate

LogoMarkers ==
    { <<"l", "o", "g", "o">>,
      <<"f", "a", "v", "i", "c", "o", "n">>,
      <<"i", "c", "o", "n">>,
      <<"s", "p", "r", "i", "t", "e">>,
      <<"a", "v", "a", "t", "a", "r">>,
      <<"b", "r", "a", "n", "d", "m", "a", "r", "k">>,
      <<"m", "a", "s", "t", "h", "e", "a", "d">>,
      <<"s", "i", "t", "e", "-", "l", "o", "g", "o">>,
      <<"h", "e", "a", "d", "e", "r", "-", "l", "o", "g", "o">>,
      <<"a", "p", "p", "l", "e", "-", "t", "o", "u", "c", "h", "-", "i", "c", "o", "n">>,
      <<"b", "l", "a", "n", "k", ".", "g", "i", "f">>,
      <<"s", "p", "a", "c", "e", "r", ".", "g", "i", "f">>,
      <<"p", "i", "x", "e", "l">> }

\* lines 346-371
_looks_like_brand_asset(image_url) ==
    IF image_url = NoPageUrl THEN FALSE
    ELSE LET lower == Lower(UrlText(image_url)) IN
         \/ \E marker \in LogoMarkers : Contains(lower, marker)
         \/ EndsWith(lower, <<".", "s", "v", "g">>)

\* urllib.parse.urljoin(base, ref) for a reference that is absolute or starts
\* with "/"
UrlJoin(base, ref) ==
    IF ref.netloc # <<>> THEN ref
    ELSE [scheme |-> base.scheme, netloc |-> base.netloc, path |-> ref.path]

\* lines 392-456: the metadata of a fetched page.  The page is given by what
\* the regular expressions find in it: the content of each <meta> tag, the
\* <p> and <title> texts, and the lh3.googleusercontent.com address after
\* the rewriting of lines 404-440.
PageMeta(page) ==
    LET final_url == page.final_url
        on_google == Contains(UrlText(final_url),
                              <<"n", "e", "w", "s", ".", "g", "o", "o", "g", "l", "e", ".", "c", "o", "m">>)
        d1 == _extract_meta_tag_value(page.og_description)
        d2 == IF d1 # <<>> THEN d1 ELSE _extract_meta_tag_value(page.twitter_description)
        d3 == IF d2 # <<>> THEN d2 ELSE _extract_meta_tag_value(page.description)
        description == IF d3 = <<>> /\ ~on_google
                       THEN _extract_first_paragraph(page.paragraphs)
                       ELSE d3
        i1 == IF page.og_image # NoPageUrl THEN page.og_image ELSE page.twitter_image
        i2 == IF i1 = NoPageUrl /\ on_google THEN page.google_image ELSE i1
        i3 == IF i2 # NoPageUrl THEN UrlJoin(final_url, i2) ELSE i2
        image_url == IF _looks_like_brand_asset(i3) THEN NoPageUrl ELSE i3
        s1 == _extract_meta_tag_value(page.og_site_name)
        site_name == IF s1 # <<>> THEN s1 ELSE _domain_from_url(final_url)
    IN  [ description |-> _compact_text(_strip_html(description), 230),
          image_url |-> image_url,
          site_name |-> _compact_text(site_name, 70),
          resolved_url |-> final_url,
          page_title |-> _extract_title_tag(page.title) ]

\* {}
NoMeta ==
    [ description |-> <<>>, image_url |-> NoPageUrl, site_name |-> <<>>,
      resolved_url |-> NoPageUrl, page_title |-> <<>> ]

NoPage ==
    [ final_url |-> NoPageUrl, og_description |-> <<>>, twitter_description |-> <<>>,
      description |-> <<>>, paragraphs |-> <<>>, og_image |-> NoPageUrl,
      twitter_image |-> NoPageUrl, google_image |-> NoPageUrl,
      og_site_name |-> <<>>, title |-> <<>> ]

ArticleUrl == PageUrl(<<"e", "x", "a", "m", "p", "l", "e", ".", "o", "r", "g">>, <<"/", "s", "t", "o", "r", "y">>)

\* a publisher page with Open Graph tags
PageOpenGraph ==
    [ NoPage EXCEPT
        !.final_url = ArticleUrl,
        !.og_description = <<"M", "a", "r", "k", "e", "t", "s", " ", "<", "b", ">", "r", "a", "l", "l", "y", "<", "/", "b", ">", " ", "&", "a", "m", "p", ";", " ", " ", "r", "e", "b", "o", "u", "n", "d", " ">>,
        !.og_image = PageUrl(<<>>, <<"/", "i", "m", "g", "/", "a", ".", "j", "p", "g">>),
        !.og_site_name = <<"E", "x", "a", "m", "p", "l", "e">>,
        !.title = <<"S", "t", "o", "r", "y", " ", "|", " ", "E", "x", "a", "m", "p", "l", "e">> ]

\* a redirected page without tags: paragraphs only, and a logo as its image
PagePlain ==
    [ NoPage EXCEPT
        !.final_url = PageUrl(<<"w", "w", "w", ".", "b", "l", "o", "g", ".", "e", "x", "a", "m", "p", "l", "e">>, <<"/", "p">>),
        !.paragraphs =
            << <<"S", "u", "b", "s", "c", "r", "i", "b", "e", " ", "n", "o", "w">>,
               <<"W", "e", " ", "u", "s", "e", " ", "c", "o", "o", "k", "i", "e", "s", " ", "t", "o", " ", "i", "m", "p", "r", "o", "v", "e", " ", "y", "o", "u", "r", " ", "e", "x", "p", "e", "r", "i", "e", "n", "c", "e", " ", "o", "n", " ", "t", "h", "i", "s", " ", "s", "i", "t", "e", " ", "a", "n", "d", " ", "t", "o", " ", "s", "h", "o", "w", " ", "y", "o", "u", " ", "r", "e", "l", "e", "v", "a", "n", "t", " ", "n", "e", "w", "s", ".">>,
               <<"T", "h", "e", " ", "c", "e", "n", "t", "r", "a", "l", " ", "b", "a", "n", "k", " ", "k", "e", "p", "t", " ", "i", "t", "s", " ", "b", "e", "n", "c", "h", "m", "a", "r", "k", " ", "r", "a", "t", "e", " ", "<", "i", ">", "u", "n", "c", "h", "a", "n", "g", "e", "d", "<", "/", "i", ">", " ", "o", "n", " ", "W", "e", "d", "n", "e", "s", "d", "a", "y", ",", " ", "c", "i", "t", "i", "n", "g", " ", "s", "t", "e", "a", "d", "y", " ", "g", "r", "o", "w", "t", "h", ".">> >>,
        !.twitter_image = PageUrl(<<>>, <<"/", "s", "t", "a", "t", "i", "c", "/", "s", "i", "t", "e", "-", "l", "o", "g", "o", ".", "p", "n", "g">>) ]

\* a Google News page that kept the reader on news.google.com
PageGoogleNews ==
    [ NoPage EXCEPT
        !.final_url = PageUrl(<<"n", "e", "w", "s", ".", "g", "o", "o", "g", "l", "e", ".", "c", "o", "m">>, <<"/", "a", "r", "t", "i", "c", "l", "e", "s", "/", "x">>),
        !.paragraphs =
            << <<"T", "h", "e", " ", "c", "e", "n", "t", "r", "a", "l", " ", "b", "a", "n", "k", " ", "k", "e", "p", "t", " ", "i", "t", "s", " ", "b", "e", "n", "c", "h", "m", "a", "r", "k", " ", "r", "a", "t", "e", " ", "<", "i", ">", "u", "n", "c", "h", "a", "n", "g", "e", "d", "<", "/", "i", ">", " ", "o", "n", " ", "W", "e", "d", "n", "e", "s", "d", "a", "y", ",", " ", "c", "i", "t", "i", "n", "g", " ", "s", "t", "e", "a", "d", "y", " ", "g", "r", "o", "w", "t", "h", ".">> >>,
        !.google_image = PageUrl(<<"l", "h", "3", ".", "g", "o", "o", "g", "l", "e", "u", "s", "e", "r", "c", "o", "n", "t", "e", "n", "t", ".", "c", "o", "m">>, <<"/", "a", "b", "c", "=", "w", "1", "2", "0", "0", "-", "h", "6", "3", "0", "-", "p">>) ]

Pages == {PageOpenGraph, PagePlain, PageGoogleNews}

ConcurrentPages == {PageOpenGraph, PagePlain}

\* lines 392-456 for each of the pages, computed once
MetaOfPage == [page \in Pages |-> PageMeta(page)]

\* the links items carry; an item may have none
MetadataUrls == {ArticleUrl}

MetadataTimes == {0, 1799, 1800, 1801}

\* None, or the stored dict {"at": ..., "meta": ...}
NoCachedMeta == <<>>

MetadataInit(threads) ==
    /\ _metadata_cache_lock = NoThread
    /\ _metadata_cache = [url \in MetadataUrls |-> NoCachedMeta]
    /\ m_pc = [t \in Threads |-> IF t \in threads THEN "idle" ELSE "off"]
    /\ m_url = [t \in Threads |-> NoPageUrl]
    /\ m_now = [t \in Threads |-> 0]
    /\ m_meta = [t \in Threads |-> NoMeta]
    /\ m_fetched = [t \in Threads |-> FALSE]

MetadataIdle == MetadataInit({})

MetadataConcurrent(t) == \E u \in Threads \ {t} : m_pc[u] # "off"

\* lines 374-378: _enrich_trend_item calls _read_article_metadata(item.url);
\* an empty url returns {} at once, otherwise the clock is read before the
\* lock is taken
MetadataCall(t) ==
    /\ m_pc[t] = "idle"
    /\ \E url \in MetadataUrls \cup {NoPageUrl} :
          /\ m_url' = [m_url EXCEPT ![t] = url]
          /\ m_pc' = [m_pc EXCEPT ![t] = IF url = NoPageUrl THEN "done" ELSE "acquire_check"]
    /\ m_now' = [m_now EXCEPT ![t] = now]
    /\ UNCHANGED <<now, _metadata_cache_lock, _metadata_cache, m_meta, m_fetched>>
    /\ UNCHANGED <<dedupeVars, scoreVars, analyzeVars, verifyVars, fetchVars, enrichVars, balanceVars, closeVars, payloadVars>>

\* line 379: with _metadata_cache_lock
MetadataAcquireCheck(t) ==
    /\ m_pc[t] = "acquire_check"
    /\ LockAcquirable(_metadata_cache_lock)
    /\ _metadata_cache_lock' = t
    /\ m_pc' = [m_pc EXCEPT ![t] = "check"]
    /\ UNCHANGED <<now, _metadata_cache, m_url, m_now, m_meta, m_fetched>>
    /\ UNCHANGED <<dedupeVars, scoreVars, analyzeVars, verifyVars, fetchVars, enrichVars, balanceVars, closeVars, payloadVars>>

MetadataCacheHitAtTtl(cached, clock) ==
    cached # NoCachedMeta /\ clock - cached[1].at <= METADATA_CACHE_TTL_SECONDS

\* line 381
MetadataCacheHit(cached, clock) ==
    cached # NoCachedMeta /\ clock - cached[1].at < METADATA_CACHE_TTL_SECONDS

MetadataCheckHoldingLock(t) ==
    /\ m_pc[t] = "check"
    /\ LET cached == _metadata_cache[m_url[t]] IN
       IF MetadataCacheHit(cached, m_now[t])
       THEN /\ m_meta' = [m_meta EXCEPT ![t] = cached[1].meta]
            /\ m_pc' = [m_pc EXCEPT ![t] = "done"]
       ELSE /\ m_pc' = [m_pc EXCEPT ![t] = "fetch"]
            /\ UNCHANGED m_meta
    /\ _metadata_cache_lock' = _metadata_cache_lock
    /\ UNCHANGED <<now, _metadata_cache, m_url, m_now, m_fetched>>
    /\ UNCHANGED <<dedupeVars, scoreVars, analyzeVars, verifyVars, fetchVars, enrichVars, balanceVars, closeVars, payloadVars>>

\* lines 380-382, and the release of the lock
MetadataCheck(t) ==
    /\ m_pc[t] = "check"
    /\ LET cached == _metadata_cache[m_url[t]] IN
       IF MetadataCacheHit(cached, m_now[t])
       THEN /\ m_meta' = [m_meta EXCEPT ![t] = cached[1].meta]
            /\ m_pc' = [m_pc EXCEPT ![t] = "done"]
       ELSE /\ m_pc' = [m_pc EXCEPT ![t] = "fetch"]
            /\ UNCHANGED m_meta
    /\ _metadata_cache_lock' = NoThread
    /\ UNCHANGED <<now, _metadata_cache, m_url, m_now, m_fetched>>
    /\ UNCHANGED <<dedupeVars, scoreVars, analyzeVars, verifyVars, fetchVars, enrichVars, balanceVars, closeVars, payloadVars>>

\* lines 384-456: the page fetch fails and {} is returned with nothing
\* stored, or a page arrives and its metadata is extracted
MetadataFetch(t) ==
    /\ m_pc[t] = "fetch"
    /\ \/ /\ m_meta' = [m_meta EXCEPT ![t] = NoMeta]
          /\ m_pc' = [m_pc EXCEPT ![t] = "done"]
       \/ \E page \in (IF MetadataConcurrent(t) THEN ConcurrentPages ELSE Pages) :
             /\ m_meta' = [m_meta EXCEPT ![t] = MetaOfPage[page]]
             /\ m_pc' = [m_pc EXCEPT ![t] = "acquire_store"]
    /\ m_fetched' = [m_fetched EXCEPT ![t] = TRUE]
    /\ UNCHANGED <<now, _metadata_cache_lock, _metadata_cache, m_url, m_now>>
    /\ UNCHANGED <<dedupeVars, scoreVars, analyzeVars, verifyVars, fetchVars, enrichVars, balanceVars, closeVars, payloadVars>>

\* line 457: with _metadata_cache_lock
MetadataAcquireStore(t) ==
    /\ m_pc[t] = "acquire_store"
    /\ LockAcquirable(_metadata_cache_lock)
    /\ _metadata_cache_lock' = t
    /\ m_pc' = [m_pc EXCEPT ![t] = "store"]
    /\ UNCHANGED <<now, _metadata_cache, m_url, m_now, m_meta, m_fetched>>
    /\ UNCHANGED <<dedupeVars, scoreVars, analyzeVars, verifyVars, fetchVars, enrichVars, balanceVars, closeVars, payloadVars>>

\* lines 458-459, and the release of the lock; "at" is the reading of line 378
MetadataStore(t) ==
    /\ m_pc[t] = "store"
    /\ _metadata_cache' = [_metadata_cache EXCEPT ![m_url[t]] =
                              <<[at |-> m_now[t], meta |-> m_meta[t]]>>]
    /\ _metadata_cache_lock' = NoThread
    /\ m_pc' = [m_pc EXCEPT ![t] = "done"]
    /\ UNCHANGED <<now, m_url, m_now, m_meta, m_fetched>>
    /\ UNCHANGED <<dedupeVars, scoreVars, analyzeVars, verifyVars, fetchVars, enrichVars, balanceVars, closeVars, payloadVars>>

\* the metadata is handed to _enrich_trend_item and the thread takes the
\* next item
MetadataReturn(t) ==
    /\ m_pc[t] = "done"
    /\ m_pc' = [m_pc EXCEPT ![t] = "idle"]
    /\ m_url' = [m_url EXCEPT ![t] = NoPageUrl]
    /\ m_now' = [m_now EXCEPT ![t] = 0]
    /\ m_meta' = [m_meta EXCEPT ![t] = NoMeta]
    /\ m_fetched' = [m_fetched EXCEPT ![t] = FALSE]
    /\ UNCHANGED <<now, _metadata_cache_lock, _metadata_cache>>
    /\ UNCHANGED <<dedupeVars, scoreVars, analyzeVars, verifyVars, fetchVars, enrichVars, balanceVars, closeVars, payloadVars>>

MetadataTick ==
    /\ \E t \in Threads : m_pc[t] # "off"
    /\ Tick(MetadataTimes)
    /\ UNCHANGED metadataVars
    /\ UNCHANGED <<dedupeVars, scoreVars, analyzeVars, verifyVars, fetchVars, enrichVars, balanceVars, closeVars, payloadVars>>

CachesIdle == now = 0 /\ AnalyzeIdle /\ VerifyIdle /\ MetadataIdle
----------------------------------------------------------------------------
(* social_fetcher.py: what the source collaborators answer *)

\* a JSON value, as Python holds it after response.json()
JNull == [type |-> "null"]

JBool(b) == [type |-> "bool", value |-> b]

JNum(n) == [type |-> "number", value |-> n]

JStr(s) == [type |-> "string", value |-> s]

JList(items) == [type |-> "list", items |-> items]

JObj(fields) == [type |-> "object", fields |-> fields]

\* the fields of {}
EmptyFields == [key \in {} |-> JNull]

\* bool(j)
Truthy(j) ==
    CASE j.type = "null" -> FALSE
      [] j.type = "bool" -> j.value
      [] j.type = "number" -> j.value # 0
      [] j.type = "string" -> j.value # <<>>
      [] j.type = "list" -> j.items # <<>>
      [] j.type = "object" -> DOMAIN j.fields # {}

\* j.get(key, default) on a dict j; on any other value Python raises AttributeError
HasGet(j) == j.type = "object"

Get(j, key, default) == IF key \in DOMAIN j.fields THEN j.fields[key] ELSE default

\* int(j) returns for a number or a bool; for None, a list or a dict it raises
\* TypeError and for text that is not a numeral ValueError
IntOk(j) == j.type \in {"number", "bool"}

IntOf(j) == IF j.type = "bool" THEN (IF j.value THEN 1 ELSE 0) ELSE j.value

\* (j or "").strip(): the stripped text of a string, "" for a falsy value;
\* any other truthy value has no strip and raises AttributeError
TextOk(j) == j.type = "string" \/ ~Truthy(j)

TextOf(j) == IF j.type = "string" THEN Strip(j.value) ELSE <<>>

\* how a call ends: by raising, or by returning a value
Raised(exception) == [raised |-> TRUE, exception |-> exception, value |-> <<>>]

Returned(value) == [raised |-> FALSE, exception |-> "", value |-> value]

\* an HTTP exchange whose body is read as JSON: a transport error, a non-2xx
\* status, a body that is not JSON, or a decoded value
HttpFailure(kind) == [failure |-> kind, json |-> JNull]

HttpJson(json) == [failure |-> "", json |-> json]

Failed(response) == response.failure # ""

\* None on any exception of requests.get, raise_for_status or response.json
_safe_get_json(response) == IF Failed(response) THEN JNull ELSE response.json

\* an HTTP exchange whose body is read as RSS: xml is what ET.fromstring and
\* root.find("channel") make of the text
RssFailure(kind) == [failure |-> kind, xml |-> "", items |-> <<>>]

RssBody(xml, items) == [failure |-> "", xml |-> xml, items |-> items]

\* channel.findall("item"), empty when the text is empty, does not parse or
\* has no channel
ChannelItems(response) ==
    IF Failed(response) \/ response.xml # "channel" THEN <<>> ELSE response.items

\* the i-th answer of a collaborator that is asked several times in one call;
\* past the answers given, the exchange fails
AnswerAt(answers, i) ==
    IF i \in 1..Len(answers) THEN answers[i] ELSE HttpFailure("network_error")

MinOf(S) == CHOOSE m \in S : \A n \in S : m <= n

\* urllib.parse.urlparse(url) of the text of a URL
UrlParse(url) ==
    LET marks == {i \in 2..(Len(url) - 2) : SubSeq(url, i, i + 2) = <<":", "/", "/">>}
    IN  IF marks = {} THEN [NoPageUrl EXCEPT !.path = url]
        ELSE LET mark == MinOf(marks)
                 rest == SubSeq(url, mark + 3, Len(url))
                 ends == {i \in 1..Len(rest) : rest[i] \in {"/", "?", "#"}}
                 stop == IF ends = {} THEN Len(rest) ELSE MinOf(ends) - 1
             IN  [scheme |-> SubSeq(url, 1, mark - 1),
                  netloc |-> SubSeq(rest, 1, stop),
                  path |-> SubSeq(rest, stop + 1, Len(rest))]

DEFAULT_REDDIT_SUBREDDITS ==
    << <<"w", "o", "r", "l", "d", "n", "e", "w", "s">>, <<"n", "e", "w", "s">>, <<"t", "e", "c", "h", "n", "o", "l", "o", "g", "y">>, <<"s", "c", "i", "e", "n", "c", "e">>, <<"b", "u", "s", "i", "n", "e", "s", "s">>, <<"p", "o", "l", "i", "t", "i", "c", "s">> >>

CATEGORY_REDDIT_SUBREDDITS ==
    << [category |-> <<"l", "o", "c", "a", "l">>, subreddits |-> << <<"n", "e", "w", "s">>, <<"u", "s", "a", "n", "e", "w", "s">> >>],
       [category |-> <<"i", "n", "d", "i", "a">>, subreddits |-> << <<"i", "n", "d", "i", "a">>, <<"i", "n", "d", "i", "a", "n", "e", "w", "s">> >>],
       [category |-> <<"w", "o", "r", "l", "d">>, subreddits |-> << <<"w", "o", "r", "l", "d", "n", "e", "w", "s">>, <<"n", "e", "w", "s">>, <<"g", "e", "o", "p", "o", "l", "i", "t", "i", "c", "s">> >>],
       [category |-> <<"e", "n", "t", "e", "r", "t", "a", "i", "n", "m", "e", "n", "t">>, subreddits |-> << <<"e", "n", "t", "e", "r", "t", "a", "i", "n", "m", "e", "n", "t">>, <<"m", "o", "v", "i", "e", "s">>, <<"t", "e", "l", "e", "v", "i", "s", "i", "o", "n">> >>],
       [category |-> <<"h", "e", "a", "l", "t", "h">>, subreddits |-> << <<"h", "e", "a", "l", "t", "h">>, <<"m", "e", "d", "i", "c", "i", "n", "e">>, <<"s", "c", "i", "e", "n", "c", "e">> >>],
       [category |-> <<"t", "r", "e", "n", "d", "i", "n", "g">>, subreddits |-> << <<"n", "e", "w", "s">>, <<"w", "o", "r", "l", "d", "n", "e", "w", "s">>, <<"t", "e", "c", "h", "n", "o", "l", "o", "g", "y">>, <<"s", "p", "o", "r", "t", "s">> >>],
       [category |-> <<"s", "p", "o", "r", "t", "s">>, subreddits |-> << <<"s", "p", "o", "r", "t", "s">>, <<"s", "o", "c", "c", "e", "r">>, <<"c", "r", "i", "c", "k", "e", "t">>, <<"n", "b", "a">> >>],
       [category |-> <<"e", "s", "p", "o", "r", "t", "s">>, subreddits |-> << <<"e", "s", "p", "o", "r", "t", "s">>, <<"v", "a", "l", "o", "r", "a", "n", "t">>, <<"g", "l", "o", "b", "a", "l", "o", "f", "f", "e", "n", "s", "i", "v", "e">>, <<"l", "e", "a", "g", "u", "e", "o", "f", "l", "e", "g", "e", "n", "d", "s">> >>],
       [category |-> <<"f", "o", "o", "d">>, subreddits |-> << <<"f", "o", "o", "d">>, <<"c", "o", "o", "k", "i", "n", "g">>, <<"r", "e", "c", "i", "p", "e", "s">> >>],
       [category |-> <<"e", "v", "e", "n", "t", "s">>, subreddits |-> << <<"n", "e", "w", "s">>, <<"e", "v", "e", "n", "t", "s">>, <<"w", "o", "r", "l", "d", "n", "e", "w", "s">> >>] >>

CATEGORY_HINT_BY_SUBREDDIT ==
    << [subreddit |-> <<"w", "o", "r", "l", "d", "n", "e", "w", "s">>, hint |-> <<"w", "o", "r", "l", "d">>],
       [subreddit |-> <<"n", "e", "w", "s">>, hint |-> <<"l", "o", "c", "a", "l">>],
       [subreddit |-> <<"u", "s", "a", "n", "e", "w", "s">>, hint |-> <<"l", "o", "c", "a", "l">>],
       [subreddit |-> <<"i", "n", "d", "i", "a">>, hint |-> <<"i", "n", "d", "i", "a">>],
       [subreddit |-> <<"i", "n", "d", "i", "a", "n", "e", "w", "s">>, hint |-> <<"i", "n", "d", "i", "a">>],
       [subreddit |-> <<"e", "n", "t", "e", "r", "t", "a", "i", "n", "m", "e", "n", "t">>, hint |-> <<"e", "n", "t", "e", "r", "t", "a", "i", "n", "m", "e", "n", "t">>],
       [subreddit |-> <<"m", "o", "v", "i", "e", "s">>, hint |-> <<"e", "n", "t", "e", "r", "t", "a", "i", "n", "m", "e", "n", "t">>],
       [subreddit |-> <<"t", "e", "l", "e", "v", "i", "s", "i", "o", "n">>, hint |-> <<"e", "n", "t", "e", "r", "t", "a", "i", "n", "m", "e", "n", "t">>],
       [subreddit |-> <<"h", "e", "a", "l", "t", "h">>, hint |-> <<"h", "e", "a", "l", "t", "h">>],
       [subreddit |-> <<"m", "e", "d", "i", "c", "i", "n", "e">>, hint |-> <<"h", "e", "a", "l", "t", "h">>],
       [subreddit |-> <<"s", "p", "o", "r", "t", "s">>, hint |-> <<"s", "p", "o", "r", "t", "s">>],
       [subreddit |-> <<"s", "o", "c", "c", "e", "r">>, hint |-> <<"s", "p", "o", "r", "t", "s">>],
       [subreddit |-> <<"c", "r", "i", "c", "k", "e", "t">>, hint |-> <<"s", "p", "o", "r", "t", "s">>],
       [subreddit |-> <<"n", "b", "a">>, hint |-> <<"s", "p", "o", "r", "t", "s">>],
       [subreddit |-> <<"e", "s", "p", "o", "r", "t", "s">>, hint |-> <<"e", "s", "p", "o", "r", "t", "s">>],
       [subreddit |-> <<"v", "a", "l", "o", "r", "a", "n", "t">>, hint |-> <<"e", "s", "p", "o", "r", "t", "s">>],
       [subreddit |-> <<"g", "l", "o", "b", "a", "l", "o", "f", "f", "e", "n", "s", "i", "v", "e">>, hint |-> <<"e", "s", "p", "o", "r", "t", "s">>],
       [subreddit |-> <<"l", "e", "a", "g", "u", "e", "o", "f", "l", "e", "g", "e", "n", "d", "s">>, hint |-> <<"e", "s", "p", "o", "r", "t", "s">>],
       [subreddit |-> <<"f", "o", "o", "d">>, hint |-> <<"f", "o", "o", "d">>],
       [subreddit |-> <<"c", "o", "o", "k", "i", "n", "g">>, hint |-> <<"f", "o", "o", "d">>],
       [subreddit |-> <<"r", "e", "c", "i", "p", "e", "s">>, hint |-> <<"f", "o", "o", "d">>],
       [subreddit |-> <<"e", "v", "e", "n", "t", "s">>, hint |-> <<"e", "v", "e", "n", "t", "s">>] >>

\* in the order of the dict
CATEGORY_KEYWORDS ==
    << [category |-> <<"i", "n", "d", "i", "a">>, words |-> { <<"i", "n", "d", "i", "a">>, <<"d", "e", "l", "h", "i">>, <<"m", "u", "m", "b", "a", "i">>, <<"b", "e", "n", "g", "a", "l", "u", "r", "u">>, <<"n", "e", "w", " ", "d", "e", "l", "h", "i">>, <<"k", "o", "l", "k", "a", "t", "a">> }],
       [category |-> <<"w", "o", "r", "l", "d">>, words |-> { <<"w", "o", "r", "l", "d">>, <<"g", "l", "o", "b", "a", "l">>, <<"e", "u", "r", "o", "p", "e">>, <<"a", "s", "i", "a">>, <<"m", "i", "d", "d", "l", "e", " ", "e", "a", "s", "t">>, <<"a", "f", "r", "i", "c", "a">> }],
       [category |-> <<"e", "n", "t", "e", "r", "t", "a", "i", "n", "m", "e", "n", "t">>, words |-> { <<"m", "o", "v", "i", "e">>, <<"m", "u", "s", "i", "c">>, <<"a", "c", "t", "o", "r">>, <<"a", "c", "t", "r", "e", "s", "s">>, <<"h", "o", "l", "l", "y", "w", "o", "o", "d">>, <<"b", "o", "l", "l", "y", "w", "o", "o", "d">> }],
       [category |-> <<"h", "e", "a", "l", "t", "h">>, words |-> { <<"h", "e", "a", "l", "t", "h">>, <<"m", "e", "d", "i", "c", "a", "l">>, <<"d", "i", "s", "e", "a", "s", "e">>, <<"v", "a", "c", "c", "i", "n", "e">>, <<"h", "o", "s", "p", "i", "t", "a", "l">>, <<"d", "o", "c", "t", "o", "r">> }],
       [category |-> <<"s", "p", "o", "r", "t", "s">>, words |-> { <<"s", "p", "o", "r", "t", "s">>, <<"m", "a", "t", "c", "h">>, <<"l", "e", "a", "g", "u", "e">>, <<"t", "o", "u", "r", "n", "a", "m", "e", "n", "t">>, <<"g", "o", "a", "l">>, <<"c", "r", "i", "c", "k", "e", "t">>, <<"n", "b", "a">>, <<"n", "f", "l">> }],
       [category |-> <<"e", "s", "p", "o", "r", "t", "s">>, words |-> { <<"e", "s", "p", "o", "r", "t", "s">>, <<"v", "a", "l", "o", "r", "a", "n", "t">>, <<"c", "s", "2">>, <<"c", "o", "u", "n", "t", "e", "r", "-", "s", "t", "r", "i", "k", "e">>, <<"d", "o", "t", "a">>, <<"l", "e", "a", "g", "u", "e", " ", "o", "f", " ", "l", "e", "g", "e", "n", "d", "s">> }],
       [category |-> <<"f", "o", "o", "d">>, words |-> { <<"f", "o", "o", "d">>, <<"r", "e", "s", "t", "a", "u", "r", "a", "n", "t">>, <<"c", "h", "e", "f">>, <<"r", "e", "c", "i", "p", "e">>, <<"c", "u", "l", "i", "n", "a", "r", "y">>, <<"d", "i", "n", "i", "n", "g">> }],
       [category |-> <<"e", "v", "e", "n", "t", "s">>, words |-> { <<"f", "e", "s", "t", "i", "v", "a", "l">>, <<"s", "u", "m", "m", "i", "t">>, <<"c", "o", "n", "f", "e", "r", "e", "n", "c", "e">>, <<"e", "v", "e", "n", "t">>, <<"e", "x", "p", "o">>, <<"c", "o", "n", "c", "e", "r", "t">> }],
       [category |-> <<"l", "o", "c", "a", "l">>, words |-> { <<"l", "o", "c", "a", "l">>, <<"c", "o", "u", "n", "t", "y">>, <<"c", "i", "t", "y", " ", "c", "o", "u", "n", "c", "i", "l">>, <<"s", "t", "a", "t", "e", "w", "i", "d", "e">>, <<"c", "o", "m", "m", "u", "n", "i", "t", "y">> }] >>

\* the first category, in dict order, one of whose words occurs in the title
_infer_category(title, fallback) ==
    LET text == Lower(title)
        hits == {i \in 1..Len(CATEGORY_KEYWORDS) :
                    \E word \in CATEGORY_KEYWORDS[i].words : Contains(text, word)}
    IN  IF hits = {} THEN fallback ELSE CATEGORY_KEYWORDS[MinOf(hits)].category

\* int(max(float(floor), 120.0 / hours_old)) with hours_old = max(1.0, age / 3600)
_engagement_from_recency(created_utc, floor) ==
    LET age == now - created_utc
    IN  IF age <= 3600 THEN Max(floor, 120) ELSE Max(floor, 432000 \div age)

\* int(max(0.0, 24.0 - age_hours)) with age_hours = max(1.0, age / 3600)
FreshnessBonus(created_utc) ==
    LET age == now - created_utc
    IN  IF age <= 3600 THEN 23
        ELSE IF age >= 86400 THEN 0
        ELSE (86400 - age) \div 3600

\* the fields of a TrendItem that ranking, balancing, the health map and the
\* source fallback of enrichment read; metrics["engagement"] is `engagement`
TrendItem(id, platform, category, title, source_name, url, created_utc, engagement) ==
    [id |-> id, platform |-> platform, category |-> category, title |-> title,
     source_name |-> source_name, url |-> url, created_utc |-> created_utc,
     engagement |-> engagement]

\* category if category != "all" else "trending"
QueryFallbackCategory(category) ==
    IF category # <<"a", "l", "l">> THEN category ELSE <<"t", "r", "e", "n", "d", "i", "n", "g">>

----------------------------------------------------------------------------
(* social_fetcher.py: the source fetchers *)

\* the loops `for x in xs: ...; trends.append(item); if len(trends) >= limit:
\* break`.  steps[i] is what the body does with xs[i]: it raises, skips the
\* element (no item) or appends one item.  NoBreak is a loop without the break.
NoBreak == -1

RECURSIVE Collect(_, _, _)
Collect(steps, limit, trends) ==
    IF steps = <<>> THEN Returned(trends)
    ELSE LET step == Head(steps) IN
         IF step.raised THEN step
         ELSE LET grown == trends \o step.value IN
              IF limit # NoBreak /\ step.value # <<>> /\ Len(grown) >= limit
              THEN Returned(grown)
              ELSE Collect(Tail(steps), limit, grown)

RECURSIVE Flatten(_)
Flatten(seqs) == IF seqs = <<>> THEN <<>> ELSE Head(seqs) \o Flatten(Tail(seqs))

\* what `for x in j` walks over: the elements of a list; the keys of a dict
\* and the characters of a text are str values, given here by one of them;
\* None, a number and a bool are not iterable
Iterate(j) ==
    CASE j.type = "list" -> Returned(j.items)
      [] j.type \in {"null", "number", "bool"} -> Raised("TypeError")
      [] OTHER -> Returned(IF Truthy(j) THEN <<JStr(<<"k">>)>> ELSE <<>>)

\* `return _dedupe_and_rank(trends, limit)` after a loop that may have raised
RankedResult(trends, limit) ==
    IF trends.raised THEN trends ELSE Returned(_dedupe_and_rank(trends.value, limit))

\* payload.get("data", {}).get("children", [])
RedditChildren(payload) ==
    IF ~HasGet(payload) THEN Raised("AttributeError")
    ELSE LET data == Get(payload, "data", JObj(EmptyFields)) IN
         IF ~HasGet(data) THEN Raised("AttributeError")
         ELSE Returned(Get(data, "children", JList(<<>>)))

\* data.get("url_overridden_by_dest") or data.get("url") or ""
ExternalUrl(data) ==
    LET overridden == Get(data, "url_overridden_by_dest", JNull)
        url == Get(data, "url", JNull)
    IN  IF Truthy(overridden) THEN overridden
        ELSE IF Truthy(url) THEN url
        ELSE JStr(<<>>)

\* external_url or permalink_url
RedditUrl(data, external_url) ==
    LET permalink == Get(data, "permalink", JStr(<<>>)) IN
    IF external_url # <<>> THEN external_url
    ELSE IF Truthy(permalink) THEN <<"h", "t", "t", "p", "s", ":", "/", "/", "w", "w", "w", ".", "r", "e", "d", "d", "i", "t", ".", "c", "o", "m">> \o permalink.value
    ELSE <<>>

\* CATEGORY_HINT_BY_SUBREDDIT.get(subreddit, "trending")
SubredditHint(subreddit) ==
    LET hits == {i \in 1..Len(CATEGORY_HINT_BY_SUBREDDIT) :
                    CATEGORY_HINT_BY_SUBREDDIT[i].subreddit = subreddit}
    IN  IF hits = {} THEN <<"t", "r", "e", "n", "d", "i", "n", "g">> ELSE CATEGORY_HINT_BY_SUBREDDIT[MinOf(hits)].hint

\* lines 564-626 and 709-756, from the int() calls on: a post with a title
RedditPost(data, title, id_prefix, source_fallback, category_fallback) ==
    LET score == Get(data, "score", JNum(0))
        comments == Get(data, "num_comments", JNum(0))
        created_utc == Get(data, "created_utc", JNum(now))
        external == ExternalUrl(data)
    IN  IF ~IntOk(score) \/ ~IntOk(comments) \/ ~IntOk(created_utc) THEN Raised("TypeError")
        ELSE IF ~TextOk(external) THEN Raised("AttributeError")
        ELSE LET external_url == TextOf(external)
                 domain == _domain_from_url(UrlParse(external_url))
             IN  Returned(<<TrendItem(
                     <<id_prefix, Get(data, "id", JStr(<<>>)).value>>,
                     "Reddit",
                     _infer_category(title, category_fallback),
                     title,
                     IF domain # <<>> THEN domain ELSE source_fallback,
                     RedditUrl(data, external_url),
                     IntOf(created_utc),
                     IntOf(score) + (IntOf(comments) * 2))>>)

\* lines 564-626: one child of a hot listing
RedditHotEntry(child, subreddit, category) ==
    IF ~HasGet(child) THEN Raised("AttributeError")
    ELSE LET data == Get(child, "data", JObj(EmptyFields)) IN
    IF ~HasGet(data) THEN Raised("AttributeError")
    ELSE IF Truthy(Get(data, "stickied", JNull)) THEN Returned(<<>>)
    ELSE LET title == Get(data, "title", JStr(<<>>)) IN
    IF title.type # "string" THEN Raised("AttributeError")
    ELSE IF Strip(title.value) = <<>> THEN Returned(<<>>)
    ELSE RedditPost(data, Strip(title.value), "reddit", <<"r", "/">> \o subreddit,
                    IF category # <<"a", "l", "l">> THEN category ELSE SubredditHint(subreddit))

\* lines 556-563: one subreddit's listing, as the steps of the child loop
RedditHotSteps(payload, subreddit, category) ==
    IF ~Truthy(payload) THEN <<>>
    ELSE LET children == RedditChildren(payload) IN
         IF children.raised THEN <<children>>
         ELSE LET walk == Iterate(children.value) IN
              IF walk.raised THEN <<walk>>
              ELSE [i \in 1..Len(walk.value) |->
                       RedditHotEntry(walk.value[i], subreddit, category)]

\* CATEGORY_REDDIT_SUBREDDITS.get(category, DEFAULT_REDDIT_SUBREDDITS), and the
\* default list for "all"
SubredditList(category) ==
    LET hits == {i \in 1..Len(CATEGORY_REDDIT_SUBREDDITS) :
                    CATEGORY_REDDIT_SUBREDDITS[i].category = category}
    IN  IF hits = {} \/ category = <<"a", "l", "l">> THEN DEFAULT_REDDIT_SUBREDDITS
        ELSE CATEGORY_REDDIT_SUBREDDITS[MinOf(hits)].subreddits

\* answers[i] is what r/<subreddit_list[i]>/hot.json answers
fetch_reddit_trends(limit, category, answers) ==
    LET subreddit_list == SubredditList(category)
        steps == Flatten([i \in 1..Len(subreddit_list) |->
                     RedditHotSteps(_safe_get_json(AnswerAt(answers, i)),
                                    subreddit_list[i], category)])
    IN  RankedResult(Collect(steps, NoBreak, <<>>), limit)

\* lines 709-756: one child of a search listing
RedditSearchEntry(child, category) ==
    IF ~HasGet(child) THEN Raised("AttributeError")
    ELSE LET data == Get(child, "data", JObj(EmptyFields)) IN
    IF ~HasGet(data) THEN Raised("AttributeError")
    ELSE LET title == Get(data, "title", JNull)
             subreddit == Get(data, "subreddit", JStr(<<>>))
         IN
    IF ~TextOk(title) THEN Raised("AttributeError")
    ELSE IF TextOf(title) = <<>> THEN Returned(<<>>)
    ELSE RedditPost(data, TextOf(title), "redditq",
                    IF Truthy(subreddit) THEN <<"r", "/">> \o subreddit.value ELSE <<"r", "e", "d", "d", "i", "t", ".", "c", "o", "m">>,
                    QueryFallbackCategory(category))

\* payload.get("data", {}).get("children", []) if payload else []
RedditSearchChildren(response) ==
    LET payload == _safe_get_json(response) IN
    IF ~Truthy(payload) THEN Returned(JList(<<>>)) ELSE RedditChildren(payload)

\* answers[1] is what search.json answers, answers[2] what r/all/search.json
\* answers when it is asked
fetch_reddit_search_trends(limit, category, answers) ==
    LET first == RedditSearchChildren(AnswerAt(answers, 1)) IN
    IF first.raised THEN first
    ELSE LET children == IF Truthy(first.value) THEN first
                         ELSE RedditSearchChildren(AnswerAt(answers, 2))
         IN
    IF children.raised THEN children
    ELSE IF ~Truthy(children.value) THEN Returned(<<>>)
    ELSE LET walk == Iterate(children.value) IN
    IF walk.raised THEN walk
    ELSE RankedResult(
             Collect([i \in 1..Len(walk.value) |-> RedditSearchEntry(walk.value[i], category)],
                     limit, <<>>),
             limit)

\* lines 639-675: one story of the top list
HackerNewsEntry(story_id, item, category) ==
    IF ~Truthy(item) THEN Returned(<<>>)
    ELSE IF ~HasGet(item) THEN Raised("AttributeError")
    ELSE LET type == Get(item, "type", JNull)
             title == Get(item, "title", JNull)
             score == Get(item, "score", JNum(0))
             comments == Get(item, "descendants", JNum(0))
             created_utc == Get(item, "time", JNum(now))
             url == Get(item, "url", JStr(<<"h", "t", "t", "p", "s", ":", "/", "/", "n", "e", "w", "s", ".", "y", "c", "o", "m", "b", "i", "n", "a", "t", "o", "r", ".", "c", "o", "m", "/", "i", "t", "e", "m">>)).value
             domain == _domain_from_url(UrlParse(url))
         IN
    IF ~(type.type = "string" /\ type.value = <<"s", "t", "o", "r", "y">>) THEN Returned(<<>>)
    ELSE IF ~TextOk(title) THEN Raised("AttributeError")
    ELSE IF TextOf(title) = <<>> THEN Returned(<<>>)
    ELSE IF ~IntOk(score) \/ ~IntOk(comments) \/ ~IntOk(created_utc) THEN Raised("TypeError")
    ELSE Returned(<<TrendItem(
             <<"hn", story_id.value>>,
             "Hacker News",
             _infer_category(TextOf(title), QueryFallbackCategory(category)),
             TextOf(title),
             IF domain # <<>> THEN domain ELSE <<"H", "a", "c", "k", "e", "r", " ", "N", "e", "w", "s">>,
             url,
             IntOf(created_utc),
             IntOf(score) + (IntOf(comments) * 3))>>)

\* answer.top is what topstories.json answers, answer.items[i] what the item
\* endpoint answers for the i-th id
fetch_hackernews_trends(limit, category, answer) ==
    LET ids_payload == _safe_get_json(answer.top) IN
    IF ids_payload.type # "list" THEN Returned(<<>>)
    ELSE LET ids == SliceTo(ids_payload.items, limit * 5) IN
         RankedResult(
             Collect([i \in 1..Len(ids) |->
                         HackerNewsEntry(ids[i], _safe_get_json(AnswerAt(answer.items, i)),
                                         category)],
                     limit, <<>>),
             limit)

\* int(hit.get(key) or default)
IntOrOk(j) == ~Truthy(j) \/ IntOk(j)

IntOr(j, default) == IF Truthy(j) THEN IntOf(j) ELSE default

\* lines 776-810: one hit of the Algolia search
HackerNewsHit(hit, category) ==
    IF ~HasGet(hit) THEN Raised("AttributeError")
    ELSE LET title == Get(hit, "title", JNull)
             story_id == Get(hit, "objectID", JStr(<<>>))
             link == Get(hit, "url", JNull)
             created_utc == Get(hit, "created_at_i", JNull)
             score == Get(hit, "points", JNull)
             comments == Get(hit, "num_comments", JNull)
         IN
    IF ~TextOk(title) THEN Raised("AttributeError")
    ELSE IF TextOf(title) = <<>> THEN Returned(<<>>)
    ELSE IF ~TextOk(link) THEN Raised("AttributeError")
    ELSE IF ~IntOrOk(created_utc) \/ ~IntOrOk(score) \/ ~IntOrOk(comments) THEN Raised("TypeError")
    ELSE LET url == IF TextOf(link) # <<>> THEN TextOf(link)
                    ELSE <<"h", "t", "t", "p", "s", ":", "/", "/", "n", "e", "w", "s", ".", "y", "c", "o", "m", "b", "i", "n", "a", "t", "o", "r", ".", "c", "o", "m", "/", "i", "t", "e", "m">>
             domain == _domain_from_url(UrlParse(url))
         IN  Returned(<<TrendItem(
                 <<"hnq", story_id.value>>,
                 "Hacker News",
                 _infer_category(TextOf(title), QueryFallbackCategory(category)),
                 TextOf(title),
                 IF domain # <<>> THEN domain ELSE <<"n", "e", "w", "s", ".", "y", "c", "o", "m", "b", "i", "n", "a", "t", "o", "r", ".", "c", "o", "m">>,
                 url,
                 IntOr(created_utc, now),
                 IntOr(score, 0) + (IntOr(comments, 0) * 3))>>)

\* lines 763-772 catch every failure of the exchange; the loop is outside the try
fetch_hackernews_search_trends(limit, category, response) ==
    IF Failed(response) THEN Returned(<<>>)
    ELSE IF ~HasGet(response.json) THEN Raised("AttributeError")
    ELSE LET walk == Iterate(Get(response.json, "hits", JList(<<>>))) IN
    IF walk.raised THEN walk
    ELSE RankedResult(
             Collect([i \in 1..Len(walk.value) |-> HackerNewsHit(walk.value[i], category)],
                     limit, <<>>),
             limit)

\* an RSS <item> is given by its child texts; pubDate is the instant
\* parsedate_to_datetime reads, NoDate when the text is empty or does not parse
NoDate == -1

_parse_pub_date(date_raw) == IF date_raw = NoDate THEN now ELSE date_raw

\* the argument max_results is `most` here
_google_rss_search(most, response) ==
    LET items == SliceTo(ChannelItems(response), most)
        kept == SelectSeq(items, LAMBDA item : Strip(item.title) # <<>> /\ Strip(item.link) # <<>>)
    IN  [i \in 1..Len(kept) |->
            [title |-> Strip(kept[i].title),
             url |-> Strip(kept[i].link),
             source |-> IF Strip(kept[i].source) # <<>> THEN Strip(kept[i].source)
                        ELSE <<"G", "o", "o", "g", "l", "e", " ", "N", "e", "w", "s">>,
             published |-> _parse_pub_date(kept[i].pubDate)]]

\* record["source"] or _domain_from_url(record["url"]) or "Google News"
GoogleSourceName(record) ==
    LET domain == _domain_from_url(UrlParse(record.url)) IN
    IF record.source # <<>> THEN record.source
    ELSE IF domain # <<>> THEN domain
    ELSE <<"G", "o", "o", "g", "l", "e", " ", "N", "e", "w", "s">>

\* lines 875-909 and 923-962: the item of one record
GoogleNewsItem(id_prefix, category, record, floor) ==
    TrendItem(<<id_prefix, category, record.url, record.title>>,
              "Google News",
              category,
              record.title,
              GoogleSourceName(record),
              record.url,
              record.published,
              _engagement_from_recency(record.published, floor)
                  + FreshnessBonus(record.published))

\* world.feed is what the RSS search answers for the query of world.category;
\* the searches of the other categories fail
GoogleAnswer(world, category) ==
    IF world.category = category THEN world.feed ELSE RssFailure("network_error")

fetch_google_news_trends(limit, category, world) ==
    LET buckets == SelectSeq(CATEGORY_ORDER, LAMBDA key : key # <<"a", "l", "l">>)
        targets == IF category = <<"a", "l", "l">> THEN buckets ELSE <<category>>
        per_bucket == IF category = <<"a", "l", "l">>
                      THEN Max(2, (limit \div Max(Len(buckets), 1)) + 1)
                      ELSE Max(4, limit)
        found(cat) == _google_rss_search(per_bucket, GoogleAnswer(world, cat))
        trends == Flatten([t \in 1..Len(targets) |->
                      [i \in 1..Len(found(targets[t])) |->
                          GoogleNewsItem("gnews", targets[t], found(targets[t])[i], 12)]])
    IN  Returned(_dedupe_and_rank(trends, limit))

fetch_google_news_query_trends(limit, query, category, response) ==
    IF Strip(query) = <<>> THEN Returned(<<>>)
    ELSE LET records == _google_rss_search(Max(8, limit), response)
             trends == [i \in 1..Len(records) |->
                          GoogleNewsItem("gnewsq",
                              _infer_category(records[i].title, QueryFallbackCategory(category)),
                              records[i], 14)]
         IN  Returned(_dedupe_and_rank(trends, limit))

\* payload.get("data", [])[: limit * 2]: a list is sliced; a text is sliced to a
\* text; None, a number and a dict cannot be sliced
TweetList(data, limit) ==
    CASE data.type = "list" -> Returned(JList(SliceTo(data.items, limit * 2)))
      [] data.type = "string" -> Returned(JStr(SliceTo(data.value, limit * 2)))
      [] OTHER -> Raised("TypeError")

\* text.replace("\n", " ")
NewlinesToSpaces(text) == [i \in 1..Len(text) |-> IF text[i] = "\n" THEN " " ELSE text[i]]

\* lines 998-1035: one tweet.  created_at is absent or does not parse in the
\* answers the model gives, so created_utc is the time of the call
Tweet(tweet, category) ==
    IF ~HasGet(tweet) THEN Raised("AttributeError")
    ELSE LET text == Get(tweet, "text", JStr(<<>>))
             metrics == Get(tweet, "public_metrics", JObj(EmptyFields))
         IN
    IF ~TextOk(text) THEN Raised("AttributeError")
    ELSE IF Strip(NewlinesToSpaces(TextOf(text))) = <<>> THEN Returned(<<>>)
    ELSE IF ~HasGet(metrics) THEN Raised("AttributeError")
    ELSE LET likes == Get(metrics, "like_count", JNum(0))
             reposts == Get(metrics, "retweet_count", JNum(0))
             replies == Get(metrics, "reply_count", JNum(0))
             quotes == Get(metrics, "quote_count", JNum(0))
             title == Strip(NewlinesToSpaces(TextOf(text)))
         IN
    IF ~IntOk(likes) \/ ~IntOk(reposts) \/ ~IntOk(replies) \/ ~IntOk(quotes)
    THEN Raised("TypeError")
    ELSE Returned(<<TrendItem(
             <<"x", Get(tweet, "id", JStr(<<>>)).value>>,
             "X",
             _infer_category(title, QueryFallbackCategory(category)),
             title,
             <<"x", ".", "c", "o", "m">>,
             <<"h", "t", "t", "p", "s", ":", "/", "/", "x", ".", "c", "o", "m", "/", "i", "/", "w", "e", "b", "/", "s", "t", "a", "t", "u", "s", "/">>,
             now,
             IntOf(likes) + (IntOf(reposts) * 2) + (IntOf(replies) * 2) + (IntOf(quotes) * 2))>>)

\* lines 984-994 catch every failure of the exchange; the loop is outside the try
fetch_x_api_trends(limit, category, response) ==
    IF Failed(response) THEN Returned(<<>>)
    ELSE IF ~HasGet(response.json) THEN Raised("AttributeError")
    ELSE LET data == TweetList(Get(response.json, "data", JList(<<>>)), limit) IN
    IF data.raised THEN data
    ELSE LET walk == Iterate(data.value) IN
    IF walk.raised THEN walk
    ELSE RankedResult(
             Collect([i \in 1..Len(walk.value) |-> Tweet(walk.value[i], category)],
                     NoBreak, <<>>),
             limit)

\* re.sub(r"^[^:]+:\s*", "", title).strip()
CleanTitle(title) ==
    LET colons == {i \in 1..Len(title) : title[i] = ":"} IN
    IF colons = {} \/ MinOf(colons) = 1 THEN Strip(title)
    ELSE Strip(SubSeq(title, MinOf(colons) + 1, Len(title)))

\* lines 1068-1100: one item of the account's feed
NitterEntry(item, category) ==
    LET title == Strip(item.title)
        link == Strip(item.link)
        created_utc == _parse_pub_date(item.pubDate)
        clean_title == CleanTitle(title)
        item_category == _infer_category(clean_title, QueryFallbackCategory(category))
    IN  IF title = <<>> \/ link = <<>> THEN Returned(<<>>)
        ELSE Returned(<<TrendItem(
                 <<"xrss", item_category, link, clean_title>>,
                 "X",
                 item_category,
                 clean_title,
                 <<"x", ".", "c", "o", "m">>,
                 link,
                 created_utc,
                 _engagement_from_recency(created_utc, 8))>>)

\* accounts[:1] and NITTER_INSTANCES[:1]: one feed is read
fetch_x_nitter_fallback(limit, category, response) ==
    LET items == SliceTo(ChannelItems(response), 2) IN
    RankedResult(
        Collect([i \in 1..Len(items) |-> NitterEntry(items[i], category)], limit, <<>>),
        limit)

\* x.bearer: X_BEARER_TOKEN is set; x.api and x.nitter: what the API and the
\* Nitter feed answer.  Returns (items, status).
fetch_x_trends(limit, category, x) ==
    LET items == IF x.bearer THEN fetch_x_api_trends(limit, category, x.api)
                 ELSE fetch_x_nitter_fallback(limit, category, x.nitter)
    IN  IF items.raised THEN items
        ELSE Returned([items |-> items.value,
                       status |-> IF x.bearer
                                  THEN (IF items.value # <<>> THEN "api_ok"
                                        ELSE "api_error_or_empty")
                                  ELSE (IF items.value # <<>> THEN "fallback_rss"
                                        ELSE "fallback_unavailable_missing_token")])

\* bucket.sort(key=(engagement, created_utc), reverse=True) of one category
CategoryBucket(items, category) ==
    SortRanked(<<>>, SelectSeq(items, LAMBDA item : item.category = category))

\* first pass: the top item of each category, in CATEGORY_ORDER without "all"
RECURSIVE FirstPass(_, _, _, _)
FirstPass(categories, items, limit, selected) ==
    IF categories = <<>> THEN [full |-> FALSE, selected |-> selected]
    ELSE LET bucket == CategoryBucket(items, Head(categories)) IN
         IF bucket = <<>> THEN FirstPass(Tail(categories), items, limit, selected)
         ELSE LET grown == Append(selected, Head(bucket)) IN
              IF Len(grown) >= limit THEN [full |-> TRUE, selected |-> grown]
              ELSE FirstPass(Tail(categories), items, limit, grown)

\* second pass: the items whose id is not selected yet, in rank order
RECURSIVE SecondPass(_, _, _)
SecondPass(items, limit, selected) ==
    IF items = <<>> THEN selected
    ELSE IF \E i \in 1..Len(selected) : selected[i].id = Head(items).id
         THEN SecondPass(Tail(items), limit, selected)
         ELSE LET grown == Append(selected, Head(items)) IN
              IF Len(grown) >= limit THEN grown
              ELSE SecondPass(Tail(items), limit, grown)

_balanced_all_categories_by_rank(items, limit) == SliceTo(items, limit)

_balanced_all_categories(items, limit) ==
    IF items = <<>> THEN <<>>
    ELSE LET first == FirstPass(SelectSeq(CATEGORY_ORDER, LAMBDA key : key # <<"a", "l", "l">>),
                                items, limit, <<>>)
         IN  IF first.full THEN first.selected
             ELSE SliceTo(SecondPass(items, limit, first.selected), limit)

\* str(item.platform)
PlatformText(platform) ==
    CASE platform = "Reddit" -> <<"R", "e", "d", "d", "i", "t">>
      [] platform = "Hacker News" -> <<"H", "a", "c", "k", "e", "r", " ", "N", "e", "w", "s">>
      [] platform = "Google News" -> <<"G", "o", "o", "g", "l", "e", " ", "N", "e", "w", "s">>
      [] platform = "X" -> <<"X">>

\* the text of a URL record; the pages are served over https
UrlUnparse(url) ==
    IF url = NoPageUrl THEN <<>>
    ELSE <<"h", "t", "t", "p", "s", ":", "/", "/">> \o url.netloc \o url.path

Digits == {"0", "1", "2", "3", "4", "5", "6", "7", "8", "9"}

\* the characters urllib.parse.quote never encodes
Unreserved == LowerLetters \cup UpperLetters \cup Digits \cup {"_", ".", "-", "~"}

\* "%XX" of the other characters the URLs are made of
PercentCode ==
    (":" :> <<"%", "3", "A">>) @@ ("/" :> <<"%", "2", "F">>) @@ ("?" :> <<"%", "3", "F">>) @@ ("=" :> <<"%", "3", "D">>)
    @@ ("&" :> <<"%", "2", "6">>) @@ (" " :> <<"%", "2", "0">>) @@ ("#" :> <<"%", "2", "3">>) @@ ("%" :> <<"%", "2", "5">>)

\* urllib.parse.quote(text, safe=""): a character that is not unreserved
\* becomes three; position k of the result lies in the piece of the character i
\* whose piece starts at or before k and ends at or after it
Quote(text) ==
    LET Encoded(i) == text[i] \notin Unreserved
        Start(i) == i + 2 * Cardinality({j \in 1..(i - 1) : Encoded(j)})
        Width(i) == IF Encoded(i) THEN 3 ELSE 1
        total == Len(text) + 2 * Cardinality({j \in 1..Len(text) : Encoded(j)})
        At(k) == CHOOSE i \in 1..Len(text) : Start(i) <= k /\ k < Start(i) + Width(i)
    IN  [k \in 1..total |->
            IF Encoded(At(k)) THEN PercentCode[text[At(k)]][k - Start(At(k)) + 1]
            ELSE text[At(k)]]

\* lines 329-333
_thum_url(url) ==
    IF url = <<>> THEN <<>>
    ELSE <<"h", "t", "t", "p", "s", ":", "/", "/", "i", "m", "a", "g", "e", ".", "t", "h", "u", "m", ".", "i", "o", "/", "g", "e", "t", "/", "w", "i", "d", "t", "h", "/", "9", "0", "0", "/", "n", "o", "a", "n", "i", "m", "a", "t", "e", "/">> \o Quote(url)

_mshots_url_unavailable(url) == <<>>

\* lines 336-340
_mshots_url(url) ==
    IF url = <<>> THEN <<>>
    ELSE <<"h", "t", "t", "p", "s", ":", "/", "/", "s", ".", "w", "o", "r", "d", "p", "r", "e", "s", "s", ".", "c", "o", "m", "/", "m", "s", "h", "o", "t", "s", "/", "v", "1", "/">> \o Quote(url) \o <<"?", "w", "=", "9", "0", "0">>

\* lines 343-345
_webshot_url(url) == _mshots_url(url)

\* lines 312-316: urlparse finds a scheme only before "://", and a netloc only
\* after it
_base_url_from_link(url) ==
    LET parsed == UrlParse(url) IN
    IF parsed.netloc = <<>> THEN <<>>
    ELSE parsed.scheme \o <<":", "/", "/">> \o parsed.netloc

\* lines 319-320
_is_google_rss_article_url(url) == Contains(url, <<"n", "e", "w", "s", ".", "g", "o", "o", "g", "l", "e", ".", "c", "o", "m", "/", "r", "s", "s", "/", "a", "r", "t", "i", "c", "l", "e", "s", "/">>)

\* lines 323-326
_fallback_screenshot_target(url, source_url) ==
    IF source_url # <<>> /\ _is_google_rss_article_url(url) THEN source_url
    ELSE IF source_url # <<>> THEN source_url ELSE url

\* lines 253-254: the same substitution and strip as _normalize_title
_normalize_compare_text(text) == Strip(KeepLowerAlnumSpace(Lower(text)))

StartsWith(s, c) == Len(c) <= Len(s) /\ SubSeq(s, 1, Len(c)) = c

Words(s) == {Split(s)[i] : i \in 1..Len(Split(s))}

_summary_is_too_close_without_overlap(summary, title) ==
    LET clean_summary == _normalize_compare_text(summary)
        clean_title == _normalize_compare_text(title)
    IN  \/ clean_summary = <<>>
        \/ clean_title = <<>>
        \/ StartsWith(clean_summary, clean_title)

\* lines 257-272
_summary_is_too_close_to_title(summary, title) ==
    LET clean_summary == _normalize_compare_text(summary)
        clean_title == _normalize_compare_text(title)
        title_words == Split(clean_title)
        summary_words == Split(clean_summary)
        overlap == Words(clean_title) \cap Words(clean_summary)
    IN  \/ clean_summary = <<>>
        \/ clean_title = <<>>
        \/ clean_summary = clean_title
        \/ StartsWith(clean_summary, clean_title)
        \/ /\ Len(summary_words) <= Len(title_words) + 3
           /\ Cardinality(overlap) >= Max(3, Len(title_words) - 1)

OrTextSecond(a, b) == b

\* a or b, for texts
OrText(a, b) == IF a # <<>> THEN a ELSE b

ReadTheFullReport ==
    <<"R", "e", "a", "d", " ", "t", "h", "e", " ", "f", "u", "l", "l", " ", "r", "e", "p", "o", "r", "t", " ", "f", "r", "o", "m", " ", "t", "h", "e", " ", "o", "f", "f", "i", "c", "i", "a", "l", " ", "s", "o", "u", "r", "c", "e", " ", "f", "o", "r", " ", "d", "e", "t", "a", "i", "l", "s", " ", "a", "n", "d", " ", "c", "o", "n", "t", "e", "x", "t", ".">>

\* lines 465 and 497-502: the source name after enrichment
EnrichedSourceName(item, article_meta) ==
    IF article_meta = NoMeta
    THEN OrText(item.source_name,
                OrText(_domain_from_url(UrlParse(item.url)), PlatformText(item.platform)))
    ELSE OrText(item.source_name,
                OrText(article_meta.site_name,
                       OrText(_domain_from_url(UrlParse(item.url)),
                              PlatformText(item.platform))))

_enrich_trend_item_retitled(item, article_meta) ==
    [item EXCEPT !.title = article_meta.page_title]

\* lines 462-512; article_meta is NoMeta when _read_article_metadata returned {}.
\* model_copy(update=...) makes a new item: the fields that are not updated are
\* those of `item`.
_enrich_trend_item(item, article_meta) ==
    IF article_meta = NoMeta
    THEN LET fallback_source == EnrichedSourceName(item, article_meta)
             fallback_target == _fallback_screenshot_target(item.url, item.source_url)
             fallback_image ==
                 OrText(item.image_url,
                        OrText(_webshot_url(fallback_target), _thum_url(fallback_target)))
         IN  [item EXCEPT
                 !.source_name = fallback_source,
                 !.source_url = OrText(item.source_url, _base_url_from_link(item.url)),
                 !.image_url = fallback_image]
    ELSE LET meta_description == article_meta.description
             summary1 ==
                 IF /\ _summary_is_too_close_to_title(item.summary, item.title)
                    /\ meta_description # <<>>
                    /\ ~_summary_is_too_close_to_title(meta_description, item.title)
                 THEN meta_description
                 ELSE item.summary
             summary ==
                 IF _summary_is_too_close_to_title(summary1, item.title)
                 THEN _compact_text(ReadTheFullReport, 180)
                 ELSE summary1
             resolved_url == UrlUnparse(article_meta.resolved_url)
             image1 ==
                 IF item.image_url = <<>> \/ Contains(item.image_url, <<"g", "o", "o", "g", "l", "e", ".", "c", "o", "m", "/", "s", "2", "/", "f", "a", "v", "i", "c", "o", "n", "s">>)
                 THEN OrText(UrlUnparse(article_meta.image_url), item.image_url)
                 ELSE item.image_url
             image2 == IF _looks_like_brand_asset(UrlParse(image1)) THEN <<>> ELSE image1
             fallback_target == _fallback_screenshot_target(resolved_url, item.source_url)
             image_url ==
                 IF image2 = <<>>
                 THEN OrText(_webshot_url(fallback_target), _thum_url(fallback_target))
                 ELSE image2
             source_name == EnrichedSourceName(item, article_meta)
             source_url == OrText(item.source_url, _base_url_from_link(resolved_url))
         IN  [item EXCEPT
                 !.summary = summary,
                 !.image_url = image_url,
                 !.source_name = source_name,
                 !.source_url = source_url]

\* what a worker does with its item: it reads the page, fails to read it, or
\* raises; outcomes[k] is the outcome of the k-th worker, taken cyclically
WorkerOutcome(outcomes, index) == outcomes[((index - 1) % Len(outcomes)) + 1]

\* fetch_trends is followed through the fields of an item that ranking,
\* balancing and the health map read.  Of the fields enrichment writes, only
\* source_name is among them.
_enrich_source_name(item, article_meta) ==
    [item EXCEPT !.source_name = EnrichedSourceName(item, article_meta)]

\* future.result() of the worker of items[index], or items[index] when the
\* worker raised (lines 1153-1156); all_fields tells whether the items carry
\* every field of a TrendItem or only those fetch_trends is followed through
WorkerResult(items, outcomes, index, all_fields) ==
    LET outcome == WorkerOutcome(outcomes, index) IN
    IF outcome.raised THEN items[index]
    ELSE IF all_fields THEN _enrich_trend_item(items[index], outcome.value)
    ELSE _enrich_source_name(items[index], outcome.value)

RECURSIVE CollectCompleted(_, _, _, _, _)

CollectCompletedInArrivalOrder(enriched, items, outcomes, order, all_fields) ==
    [index \in 1..Len(items) |->
        IF index <= Len(order) THEN WorkerResult(items, outcomes, order[index], all_fields)
        ELSE enriched[index]]

\* lines 1151-1156: the futures are taken as they complete; `order` lists the
\* indices of the submitted items in the order their workers finish
CollectCompleted(enriched, items, outcomes, order, all_fields) ==
    IF order = <<>> THEN enriched
    ELSE CollectCompleted(
             [enriched EXCEPT ![Head(order)] = WorkerResult(items, outcomes, Head(order), all_fields)],
             items, outcomes, Tail(order), all_fields)

\* the orders in which the workers of items 1..count can finish
CompletionOrders(count) ==
    {order \in [1..count -> 1..count] : \A i, j \in 1..count : i # j => order[i] # order[j]}

\* lines 1140-1158
EnrichEach(items, max_enrich, outcomes, order, all_fields) ==
    IF items = <<>> THEN <<>>
    ELSE LET count == Max(0, Min(max_enrich, Len(items))) IN
         IF count = 0 THEN items
         ELSE CollectCompleted(items, items, outcomes, SliceTo(order, count), all_fields)

_enrich_items_concurrent(items, max_enrich, outcomes, order) ==
    EnrichEach(items, max_enrich, outcomes, order, TRUE)

\* int(limit * 0.32) and the like: the product is truncated; for every limit
\* up to 89 this is the integer quotient
IntOfShare(limit, hundredths) == (limit * hundredths) \div 100

----------------------------------------------------------------------------
(* social_fetcher.py: fetch_trends, one request at a time *)

\* the time of the request; the clock does not advance while it runs
FetchClock == 1000000

\* answers are given for the first MaxSubreddits subreddits of the list
MaxSubreddits == 2

RedditChild(fields) == JObj("data" :> JObj(fields))

RedditListing(children) == JObj("data" :> JObj("children" :> JList(children)))

PostSticky ==
    RedditChild(("id" :> JStr(<<"s", "0">>)) @@ ("stickied" :> JBool(TRUE))
                @@ ("title" :> JStr(<<"R", "u", "l", "e", "s", " ", "o", "f", " ", "t", "h", "e", " ", "f", "o", "r", "u", "m">>)))

PostCup ==
    RedditChild(("id" :> JStr(<<"c", "1">>)) @@ ("title" :> JStr(<<" ", "C", "u", "p", " ", "f", "i", "n", "a", "l", " ", "m", "a", "t", "c", "h", " ">>))
                @@ ("score" :> JNum(40)) @@ ("num_comments" :> JNum(5))
                @@ ("created_utc" :> JNum(FetchClock - 600))
                @@ ("url" :> JStr(<<"h", "t", "t", "p", "s", ":", "/", "/", "w", "w", "w", ".", "e", "s", "p", "n", ".", "c", "o", "m", "/", "c", "u", "p">>)))

PostQuiet ==
    RedditChild(("id" :> JStr(<<"q", "2">>)) @@ ("title" :> JStr(<<"Q", "u", "i", "e", "t", " ", "d", "a", "y">>))
                @@ ("score" :> JNum(3)) @@ ("num_comments" :> JNum(1))
                @@ ("created_utc" :> JNum(FetchClock - 900))
                @@ ("permalink" :> JStr(<<"/", "r", "/", "n", "e", "w", "s", "/", "q", "2">>)))

PostCouncil ==
    RedditChild(("id" :> JStr(<<"v", "3">>)) @@ ("title" :> JStr(<<"C", "i", "t", "y", " ", "c", "o", "u", "n", "c", "i", "l", " ", "v", "o", "t", "e", "!">>))
                @@ ("score" :> JNum(10)) @@ ("num_comments" :> JNum(0))
                @@ ("subreddit" :> JStr(<<"n", "e", "w", "s">>))
                @@ ("url" :> JStr(<<"h", "t", "t", "p", "s", ":", "/", "/", "e", "x", "a", "m", "p", "l", "e", ".", "o", "r", "g", "/", "c", "o", "u", "n", "c", "i", "l">>)))

PostNullTitle == RedditChild(("id" :> JStr(<<"n", "4">>)) @@ ("title" :> JNull))

PostNullScore ==
    RedditChild(("id" :> JStr(<<"n", "5">>)) @@ ("title" :> JStr(<<"U", "n", "t", "a", "l", "l", "i", "e", "d">>)) @@ ("score" :> JNull))

\* what a Reddit endpoint answers: no answer, a refusal, a page that is not
\* JSON, an empty object, an empty listing, two listings with posts, and JSON
\* of another shape than a listing
RedditAnswers ==
    << HttpFailure("network_error"),
       HttpFailure("http_status"),
       HttpFailure("invalid_json"),
       HttpJson(JObj(EmptyFields)),
       HttpJson(RedditListing(<<>>)),
       HttpJson(RedditListing(<<PostSticky, PostCup, PostQuiet>>)),
       HttpJson(RedditListing(<<PostCouncil>>)),
       HttpJson(JObj("data" :> JNull)),
       HttpJson(JList(<<RedditListing(<<>>)>>)),
       HttpJson(RedditListing(<<PostNullTitle>>)),
       HttpJson(RedditListing(<<PostNullScore>>)) >>

HnStory(title, score, descendants, url) ==
    JObj(("type" :> JStr(<<"s", "t", "o", "r", "y">>)) @@ ("title" :> JStr(title)) @@ ("score" :> JNum(score))
         @@ ("descendants" :> JNum(descendants)) @@ ("time" :> JNum(FetchClock - 1200))
         @@ ("url" :> JStr(url)))

\* what topstories.json answers
HnTopAnswers ==
    << HttpFailure("network_error"),
       HttpJson(JObj("error" :> JStr(<<"P", "e", "r", "m", "i", "s", "s", "i", "o", "n", " ", "d", "e", "n", "i", "e", "d">>))),
       HttpJson(JList(<<>>)),
       HttpJson(JList(<<JNum(101)>>)),
       HttpJson(JList(<<JNum(101), JNum(102)>>)) >>

\* what the item endpoint answers for the i-th id
HnItemAnswers(i) ==
    << HttpFailure("network_error"),
       HttpJson(JNull),
       HttpJson(IF i = 1 THEN HnStory(<<"C", "u", "p", " ", "F", "i", "n", "a", "l", " ", "M", "a", "t", "c", "h">>, 30, 10, <<"h", "t", "t", "p", "s", ":", "/", "/", "b", "b", "c", ".", "c", "o", ".", "u", "k", "/", "s", "p", "o", "r", "t", "/", "c", "u", "p">>)
                ELSE HnStory(<<"G", "l", "o", "b", "a", "l", " ", "s", "u", "m", "m", "i", "t", " ", "o", "p", "e", "n", "s">>, 8, 1, <<"h", "t", "t", "p", "s", ":", "/", "/", "w", "w", "w", ".", "r", "e", "u", "t", "e", "r", "s", ".", "c", "o", "m", "/", "s", "u", "m", "m", "i", "t">>)),
       HttpJson(JObj(("type" :> JStr(<<"c", "o", "m", "m", "e", "n", "t">>)) @@ ("text" :> JStr(<<"n", "i", "c", "e">>)))),
       HttpJson(JList(<<JNum(1)>>)),
       HttpJson(JObj(("type" :> JStr(<<"s", "t", "o", "r", "y">>)) @@ ("title" :> JStr(<<"U", "n", "t", "a", "l", "l", "i", "e", "d">>))
                     @@ ("score" :> JNull))) >>

HnHit(id, title, points, comments) ==
    JObj(("objectID" :> JStr(id)) @@ ("title" :> JStr(title)) @@ ("points" :> JNum(points))
         @@ ("num_comments" :> JNum(comments)) @@ ("created_at_i" :> JNum(FetchClock - 1200)))

\* what the Algolia search answers
HnSearchAnswers ==
    << HttpFailure("network_error"),
       HttpJson(JObj("hits" :> JList(<<>>))),
       HttpJson(JObj("hits" :> JList(<<HnHit(<<"2", "0", "1">>, <<"C", "u", "p", " ", "F", "i", "n", "a", "l", " ", "M", "a", "t", "c", "h">>, 30, 10),
                                      JObj(("objectID" :> JStr(<<"2", "0", "2">>)) @@ ("title" :> JNull))>>))),
       HttpJson(JList(<<>>)),
       HttpJson(JObj("hits" :> JNull)) >>

RssItem(title, link, pubDate, source) ==
    [title |-> title, link |-> link, pubDate |-> pubDate, source |-> source]

\* what a Google News RSS search answers
GoogleFeeds ==
    << RssFailure("network_error"),
       RssFailure("http_status"),
       RssBody("parse_error", <<>>),
       RssBody("no_channel", <<>>),
       RssBody("channel", <<>>),
       RssBody("channel",
               << RssItem(<<"C", "u", "p", " ", "f", "i", "n", "a", "l", " ", "m", "a", "t", "c", "h">>, <<"h", "t", "t", "p", "s", ":", "/", "/", "n", "e", "w", "s", ".", "g", "o", "o", "g", "l", "e", ".", "c", "o", "m", "/", "r", "s", "s", "/", "a", "r", "t", "i", "c", "l", "e", "s", "/", "a", "1">>,
                          FetchClock - 1800, <<"E", "S", "P", "N">>),
                  RssItem(<<"N", "o", " ", "l", "i", "n", "k">>, <<>>, FetchClock - 1800, <<"E", "S", "P", "N">>) >>),
       RssBody("channel",
               << RssItem(<<"V", "a", "c", "c", "i", "n", "e", " ", "t", "r", "i", "a", "l", " ", "r", "e", "s", "u", "l", "t", "s", " ">>, <<"h", "t", "t", "p", "s", ":", "/", "/", "n", "e", "w", "s", ".", "g", "o", "o", "g", "l", "e", ".", "c", "o", "m", "/", "r", "s", "s", "/", "a", "r", "t", "i", "c", "l", "e", "s", "/", "a", "2">>,
                          NoDate, <<>>),
                  RssItem(<<"O", "l", "d", " ", "s", "t", "o", "r", "y">>, <<"h", "t", "t", "p", "s", ":", "/", "/", "n", "e", "w", "s", ".", "g", "o", "o", "g", "l", "e", ".", "c", "o", "m", "/", "r", "s", "s", "/", "a", "r", "t", "i", "c", "l", "e", "s", "/", "a", "3">>,
                          FetchClock - 90000, <<"R", "e", "u", "t", "e", "r", "s">>) >>) >>

\* the categories whose search may answer
GoogleCategories == { <<"s", "p", "o", "r", "t", "s">>, <<"h", "e", "a", "l", "t", "h">> }

Tweet1 ==
    JObj(("id" :> JStr(<<"t", "1">>)) @@ ("text" :> JStr(<<"F", "e", "s", "t", "i", "v", "a", "l", " ", "l", "i", "n", "e", "u", "p", "\n", "a", "n", "n", "o", "u", "n", "c", "e", "d">>))
         @@ ("public_metrics" :> JObj(("like_count" :> JNum(5)) @@ ("retweet_count" :> JNum(1)))))

TweetBlank == JObj(("id" :> JStr(<<"t", "2">>)) @@ ("text" :> JStr(<<" ", "\n", " ">>)))

\* what the X API answers
XApiAnswers ==
    << HttpFailure("network_error"),
       HttpFailure("http_status"),
       HttpJson(JObj("meta" :> JObj("result_count" :> JNum(0)))),
       HttpJson(JObj("data" :> JList(<<Tweet1, TweetBlank>>))),
       HttpJson(JObj("data" :> JNull)),
       HttpJson(JList(<<>>)) >>

\* what the Nitter feed answers
NitterAnswers ==
    << RssFailure("network_error"),
       RssBody("parse_error", <<>>),
       RssBody("channel",
               << RssItem(<<"R", "e", "u", "t", "e", "r", "s", ":", " ", "S", "t", "o", "r", "m", " ", "w", "a", "r", "n", "i", "n", "g">>, <<"h", "t", "t", "p", "s", ":", "/", "/", "n", "i", "t", "t", "e", "r", ".", "n", "e", "t", "/", "R", "e", "u", "t", "e", "r", "s", "/", "s", "t", "a", "t", "u", "s", "/", "1">>,
                          FetchClock - 7200, <<>>) >>) >>

\* what an enrichment worker comes back with
WorkerOutcomes ==
    << Returned(NoMeta), Raised("ValueError"), Returned(MetaOfPage[PageOpenGraph]) >>

FetchLimits == {5, 8}

FetchCategories == { <<"a", "l", "l">>, <<"s", "p", "o", "r", "t", "s">> }

FetchQueries == { <<>>, <<" ", "c", "u", "p", " ">> }

FetchRequests == [limit : FetchLimits, category : FetchCategories, query : FetchQueries]

NoFetchRequest == [limit |-> 0, category |-> <<>>, query |-> <<>>]

HealthSources == {"reddit", "hacker_news", "google_news", "x"}

\* f"ok:{count}" is [status |-> "ok", count |-> count]; any other status has count 0
HealthStatus(status) == [status |-> status, count |-> 0]

NoHealth == [source \in HealthSources |-> HealthStatus("")]

\* f"ok:{len(items)}" if items else empty_status
HealthOf(items, empty_status) ==
    IF items # <<>> THEN [status |-> "ok", count |-> Len(items)]
    ELSE HealthStatus(empty_status)

\* before the first call of a fetcher
NoCall == [source |-> "", category |-> <<>>, unavailable |-> FALSE, returned |-> 0]

FetchInit ==
    /\ f_pc = "call"
    /\ f_req \in FetchRequests
    /\ reddit_items = <<>>
    /\ hn_items = <<>>
    /\ gnews_items = <<>>
    /\ x_items = <<>>
    /\ x_status = ""
    /\ f_items = <<>>
    /\ source_health = NoHealth
    /\ f_calls = <<>>
    /\ f_last = NoCall
    /\ f_raised = ""

FetchIdle ==
    /\ f_pc = "off"
    /\ f_req = NoFetchRequest
    /\ reddit_items = <<>>
    /\ hn_items = <<>>
    /\ gnews_items = <<>>
    /\ x_items = <<>>
    /\ x_status = ""
    /\ f_items = <<>>
    /\ source_health = NoHealth
    /\ f_calls = <<>>
    /\ f_last = NoCall
    /\ f_raised = ""

\* lines 1205-1206
fetch_category == normalize_category(f_req.category)

fetch_query == Strip(f_req.query)

fetch_limit == f_req.limit

\* lines 1242-1251
reddit_target ==
    IF fetch_category = <<"a", "l", "l">> THEN Max(5, IntOfShare(fetch_limit, 32))
    ELSE Max(2, IntOfShare(fetch_limit, 15))

hn_target ==
    IF fetch_category = <<"a", "l", "l">> THEN Max(3, IntOfShare(fetch_limit, 20)) ELSE 1

gnews_target ==
    IF fetch_category = <<"a", "l", "l">> THEN Max(5, IntOfShare(fetch_limit, 30))
    ELSE Max(10, IntOfShare(fetch_limit, 70))

x_target ==
    IF fetch_category = <<"a", "l", "l">>
    THEN Max(2, fetch_limit - reddit_target - hn_target - gnews_target + 2)
    ELSE 1

\* the call of a source fetcher that fetch_trends made last: `unavailable`
\* when every exchange of the call failed, and the number of items it returned
Call(source, category, unavailable, result) ==
    [source |-> source, category |-> category, unavailable |-> unavailable,
     returned |-> IF result.raised THEN 0 ELSE Len(result.value)]

\* the call is made: it is the last call, and the log has its source and category
Log(call) ==
    /\ f_last' = call
    /\ f_calls' = Append(f_calls, [source |-> call.source, category |-> call.category])

\* fetch_trends has no try: an exception of a fetcher leaves it at once
Propagate(result) ==
    /\ f_pc' = "raised"
    /\ f_raised' = result.exception

\* the answers of the Reddit endpoints asked in one call
RedditAnswered(pick) == [i \in 1..Len(pick) |-> RedditAnswers[pick[i]]]

RedditPicks == UNION {[1..n -> 1..Len(RedditAnswers)] : n \in 0..MaxSubreddits}

AllFailed(answers, count) == \A i \in 1..count : Failed(AnswerAt(answers, i))

\* the answers of Hacker News in one call
HnAnswered(top, pick) ==
    [top |-> HnTopAnswers[top], items |-> [i \in 1..Len(pick) |-> HnItemAnswers(i)[pick[i]]]]

\* one answer of the item endpoint for each id of the top list
HnPicks(top) ==
    LET ids_payload == _safe_get_json(HnTopAnswers[top])
        count == IF ids_payload.type = "list" THEN Len(ids_payload.items) ELSE 0
    IN  [1..count -> 1..Len(HnItemAnswers(1))]

FetchCallIgnoringQuery ==
    /\ f_pc = "call"
    /\ f_pc' = "reddit"
    /\ UNCHANGED <<f_req, reddit_items, hn_items, gnews_items, x_items, x_status, f_items,
                   source_health, f_calls, f_last, f_raised>>
    /\ UNCHANGED <<dedupeVars, scoreVars, cacheVars, enrichVars, balanceVars, closeVars, payloadVars>>

\* lines 1208: the branch on the query
FetchCall ==
    /\ f_pc = "call"
    /\ f_pc' = IF fetch_query # <<>> THEN "query_google_news" ELSE "reddit"
    /\ UNCHANGED <<f_req, reddit_items, hn_items, gnews_items, x_items, x_status, f_items,
                   source_health, f_calls, f_last, f_raised>>
    /\ UNCHANGED <<dedupeVars, scoreVars, cacheVars, enrichVars, balanceVars, closeVars, payloadVars>>

\* line 1253
FetchReddit ==
    /\ f_pc = "reddit"
    /\ \E pick \in RedditPicks :
          LET answers == RedditAnswered(pick)
              result == fetch_reddit_trends(reddit_target, fetch_category, answers)
          IN  /\ Log(
                      Call("reddit", fetch_category,
                           AllFailed(answers, Len(SubredditList(fetch_category))), result))
              /\ IF result.raised
                 THEN Propagate(result) /\ UNCHANGED reddit_items
                 ELSE /\ reddit_items' = result.value
                      /\ f_pc' = "hacker_news"
                      /\ UNCHANGED f_raised
    /\ UNCHANGED <<f_req, hn_items, gnews_items, x_items, x_status, f_items, source_health>>
    /\ UNCHANGED <<dedupeVars, scoreVars, cacheVars, enrichVars, balanceVars, closeVars, payloadVars>>

\* line 1254
FetchHackerNews ==
    /\ f_pc = "hacker_news"
    /\ \E top \in 1..Len(HnTopAnswers) : \E pick \in HnPicks(top) :
          LET answer == HnAnswered(top, pick)
              result == fetch_hackernews_trends(hn_target, fetch_category, answer)
          IN  /\ Log(
                      Call("hacker_news", fetch_category, Failed(answer.top), result))
              /\ IF result.raised
                 THEN Propagate(result) /\ UNCHANGED hn_items
                 ELSE /\ hn_items' = result.value
                      /\ f_pc' = "google_news"
                      /\ UNCHANGED f_raised
    /\ UNCHANGED <<f_req, reddit_items, gnews_items, x_items, x_status, f_items, source_health>>
    /\ UNCHANGED <<dedupeVars, scoreVars, cacheVars, enrichVars, balanceVars, closeVars, payloadVars>>

\* line 1255
FetchGoogleNews ==
    /\ f_pc = "google_news"
    /\ \E category \in GoogleCategories, feed \in 1..Len(GoogleFeeds) :
          LET world == [category |-> category, feed |-> GoogleFeeds[feed]]
              result == fetch_google_news_trends(gnews_target, fetch_category, world)
              asked == fetch_category \in {<<"a", "l", "l">>, category}
          IN  /\ Log(
                      Call("google_news", fetch_category,
                           ~asked \/ Failed(world.feed), result))
              /\ gnews_items' = result.value
    /\ f_pc' = "x"
    /\ UNCHANGED <<f_req, reddit_items, hn_items, x_items, x_status, f_items, source_health,
                   f_raised>>
    /\ UNCHANGED <<dedupeVars, scoreVars, cacheVars, enrichVars, balanceVars, closeVars, payloadVars>>

\* line 1256
FetchX ==
    /\ f_pc = "x"
    /\ \E bearer \in BOOLEAN, api \in 1..Len(XApiAnswers), nitter \in 1..Len(NitterAnswers) :
          /\ bearer => nitter = 1
          /\ ~bearer => api = 1
          /\ LET x == [bearer |-> bearer, api |-> XApiAnswers[api],
                       nitter |-> NitterAnswers[nitter]]
                 result == fetch_x_trends(x_target, fetch_category, x)
             IN  /\ Log(
                         Call("x", fetch_category,
                              IF bearer THEN Failed(x.api) ELSE Failed(x.nitter),
                              IF result.raised THEN result ELSE Returned(result.value.items)))
                 /\ IF result.raised
                    THEN Propagate(result) /\ UNCHANGED <<x_items, x_status>>
                    ELSE /\ x_items' = result.value.items
                         /\ x_status' = result.value.status
                         /\ f_pc' = "reddit_fallback"
                         /\ UNCHANGED f_raised
    /\ UNCHANGED <<f_req, reddit_items, hn_items, gnews_items, f_items, source_health>>
    /\ UNCHANGED <<dedupeVars, scoreVars, cacheVars, enrichVars, balanceVars, closeVars, payloadVars>>

\* lines 1260-1262
FetchRedditFallback ==
    /\ f_pc = "reddit_fallback"
    /\ IF Len(reddit_items) < 2
       THEN \E pick \in RedditPicks :
               LET answers == RedditAnswered(pick)
                   fallback_reddit == fetch_reddit_trends(Max(4, reddit_target), <<"a", "l", "l">>, answers)
               IN  /\ Log(
                           Call("reddit", <<"a", "l", "l">>,
                                AllFailed(answers, Len(SubredditList(<<"a", "l", "l">>))), fallback_reddit))
                   /\ IF fallback_reddit.raised
                      THEN Propagate(fallback_reddit) /\ UNCHANGED reddit_items
                      ELSE /\ reddit_items' = _dedupe_and_rank(
                                                  reddit_items \o fallback_reddit.value,
                                                  Max(6, reddit_target))
                           /\ f_pc' = "hn_fallback"
                           /\ UNCHANGED f_raised
       ELSE /\ f_pc' = "hn_fallback"
            /\ UNCHANGED <<reddit_items, f_calls, f_last, f_raised>>
    /\ UNCHANGED <<f_req, hn_items, gnews_items, x_items, x_status, f_items, source_health>>
    /\ UNCHANGED <<dedupeVars, scoreVars, cacheVars, enrichVars, balanceVars, closeVars, payloadVars>>

FetchHackerNewsFallbackUnconditional ==
    /\ f_pc = "hn_fallback"
    /\ \E top \in 1..Len(HnTopAnswers) : \E pick \in HnPicks(top) :
          LET answer == HnAnswered(top, pick)
              fallback_hn == fetch_hackernews_trends(Max(3, hn_target + 1), <<"a", "l", "l">>, answer)
          IN  /\ Log(
                      Call("hacker_news", <<"a", "l", "l">>, Failed(answer.top), fallback_hn))
              /\ IF fallback_hn.raised
                 THEN Propagate(fallback_hn) /\ UNCHANGED hn_items
                 ELSE /\ hn_items' = _dedupe_and_rank(hn_items \o fallback_hn.value,
                                                      Max(3, hn_target))
                      /\ f_pc' = "rank"
                      /\ UNCHANGED f_raised
    /\ UNCHANGED <<f_req, reddit_items, gnews_items, x_items, x_status, f_items, source_health>>
    /\ UNCHANGED <<dedupeVars, scoreVars, cacheVars, enrichVars, balanceVars, closeVars, payloadVars>>

\* lines 1263-1265
FetchHackerNewsFallback ==
    /\ f_pc = "hn_fallback"
    /\ IF Len(hn_items) < 1
       THEN \E top \in 1..Len(HnTopAnswers) : \E pick \in HnPicks(top) :
               LET answer == HnAnswered(top, pick)
                   fallback_hn == fetch_hackernews_trends(Max(3, hn_target + 1), <<"a", "l", "l">>, answer)
               IN  /\ Log(
                           Call("hacker_news", <<"a", "l", "l">>, Failed(answer.top), fallback_hn))
                   /\ IF fallback_hn.raised
                      THEN Propagate(fallback_hn) /\ UNCHANGED hn_items
                      ELSE /\ hn_items' = _dedupe_and_rank(hn_items \o fallback_hn.value,
                                                           Max(3, hn_target))
                           /\ f_pc' = "rank"
                           /\ UNCHANGED f_raised
       ELSE /\ f_pc' = "rank"
            /\ UNCHANGED <<hn_items, f_calls, f_last, f_raised>>
    /\ UNCHANGED <<f_req, reddit_items, gnews_items, x_items, x_status, f_items, source_health>>
    /\ UNCHANGED <<dedupeVars, scoreVars, cacheVars, enrichVars, balanceVars, closeVars, payloadVars>>

\* lines 1209-1213
QueryGoogleNews ==
    /\ f_pc = "query_google_news"
    /\ \E feed \in 1..Len(GoogleFeeds) :
          LET result == fetch_google_news_query_trends(
                            Max(10, IntOfShare(fetch_limit, 55)), fetch_query, fetch_category,
                            GoogleFeeds[feed])
          IN  /\ Log(
                      Call("google_news", fetch_category, Failed(GoogleFeeds[feed]), result))
              /\ gnews_items' = result.value
    /\ f_pc' = "query_reddit"
    /\ UNCHANGED <<f_req, reddit_items, hn_items, x_items, x_status, f_items, source_health,
                   f_raised>>
    /\ UNCHANGED <<dedupeVars, scoreVars, cacheVars, enrichVars, balanceVars, closeVars, payloadVars>>

\* lines 1214-1218
QueryReddit ==
    /\ f_pc = "query_reddit"
    /\ \E pick \in RedditPicks :
          LET answers == RedditAnswered(pick)
              result == fetch_reddit_search_trends(Max(5, IntOfShare(fetch_limit, 25)),
                                                   fetch_category, answers)
          IN  /\ Log(
                      Call("reddit_search", fetch_category, AllFailed(answers, 2), result))
              /\ IF result.raised
                 THEN Propagate(result) /\ UNCHANGED reddit_items
                 ELSE /\ reddit_items' = result.value
                      /\ f_pc' = "query_reddit_fallback"
                      /\ UNCHANGED f_raised
    /\ UNCHANGED <<f_req, hn_items, gnews_items, x_items, x_status, f_items, source_health>>
    /\ UNCHANGED <<dedupeVars, scoreVars, cacheVars, enrichVars, balanceVars, closeVars, payloadVars>>

\* lines 1219-1221
QueryRedditFallback ==
    /\ f_pc = "query_reddit_fallback"
    /\ IF reddit_items = <<>>
       THEN \E pick \in RedditPicks :
               LET answers == RedditAnswered(pick)
                   result == fetch_reddit_trends(Max(3, IntOfShare(fetch_limit, 20)),
                                                 fetch_category, answers)
               IN  /\ Log(
                           Call("reddit", fetch_category,
                                AllFailed(answers, Len(SubredditList(fetch_category))),
                                result))
                   /\ IF result.raised
                      THEN Propagate(result) /\ UNCHANGED reddit_items
                      ELSE /\ reddit_items' = result.value
                           /\ f_pc' = "query_hacker_news"
                           /\ UNCHANGED f_raised
       ELSE /\ f_pc' = "query_hacker_news"
            /\ UNCHANGED <<reddit_items, f_calls, f_last, f_raised>>
    /\ UNCHANGED <<f_req, hn_items, gnews_items, x_items, x_status, f_items, source_health>>
    /\ UNCHANGED <<dedupeVars, scoreVars, cacheVars, enrichVars, balanceVars, closeVars, payloadVars>>

\* lines 1222-1226
QueryHackerNews ==
    /\ f_pc = "query_hacker_news"
    /\ \E search \in 1..Len(HnSearchAnswers) :
          LET result == fetch_hackernews_search_trends(Max(4, IntOfShare(fetch_limit, 20)),
                                                       fetch_category,
                                                       HnSearchAnswers[search])
          IN  /\ Log(
                      Call("hacker_news_search", fetch_category,
                           Failed(HnSearchAnswers[search]), result))
              /\ IF result.raised
                 THEN Propagate(result) /\ UNCHANGED hn_items
                 ELSE /\ hn_items' = result.value
                      /\ f_pc' = "query_hn_fallback"
                      /\ UNCHANGED f_raised
    /\ UNCHANGED <<f_req, reddit_items, gnews_items, x_items, x_status, f_items, source_health>>
    /\ UNCHANGED <<dedupeVars, scoreVars, cacheVars, enrichVars, balanceVars, closeVars, payloadVars>>

\* lines 1227-1228
QueryHackerNewsFallback ==
    /\ f_pc = "query_hn_fallback"
    /\ IF hn_items = <<>>
       THEN \E top \in 1..Len(HnTopAnswers) : \E pick \in HnPicks(top) :
               LET answer == HnAnswered(top, pick)
                   result == fetch_hackernews_trends(Max(2, IntOfShare(fetch_limit, 15)),
                                                     fetch_category, answer)
               IN  /\ Log(
                           Call("hacker_news", fetch_category, Failed(answer.top), result))
                   /\ IF result.raised
                      THEN Propagate(result) /\ UNCHANGED hn_items
                      ELSE /\ hn_items' = result.value
                           /\ f_pc' = "rank"
                           /\ UNCHANGED f_raised
       ELSE /\ f_pc' = "rank"
            /\ UNCHANGED <<hn_items, f_calls, f_last, f_raised>>
    /\ UNCHANGED <<f_req, reddit_items, gnews_items, x_items, x_status, f_items, source_health>>
    /\ UNCHANGED <<dedupeVars, scoreVars, cacheVars, enrichVars, balanceVars, closeVars, payloadVars>>

\* lines 1229-1232 with a query, lines 1267-1271 without
FetchRank ==
    /\ f_pc = "rank"
    /\ f_items' =
          IF fetch_query # <<>>
          THEN SliceTo(_dedupe_and_rank(gnews_items \o reddit_items \o hn_items,
                                        Max(fetch_limit * 2, 30)),
                       fetch_limit)
          ELSE LET ranked_items == _dedupe_and_rank(
                                       reddit_items \o hn_items \o gnews_items \o x_items,
                                       Max(fetch_limit * 2, 30))
               IN  IF fetch_category = <<"a", "l", "l">>
                   THEN _balanced_all_categories(ranked_items, fetch_limit)
                   ELSE SliceTo(ranked_items, fetch_limit)
    /\ f_pc' = "enrich"
    /\ UNCHANGED <<f_req, reddit_items, hn_items, gnews_items, x_items, x_status,
                   source_health, f_calls, f_last, f_raised>>
    /\ UNCHANGED <<dedupeVars, scoreVars, cacheVars, enrichVars, balanceVars, closeVars, payloadVars>>

\* line 1233 with a query, line 1274 without
FetchEnrich ==
    /\ f_pc = "enrich"
    /\ \E n \in 1..2 : \E pick \in [1..n -> 1..Len(WorkerOutcomes)] :
          f_items' = EnrichEach(
                         f_items,
                         Min(IF fetch_query # <<>> THEN 12 ELSE 6, Len(f_items)),
                         [i \in 1..n |-> WorkerOutcomes[pick[i]]],
                         [i \in 1..Len(f_items) |-> i],
                         FALSE)
    /\ f_pc' = "health"
    /\ UNCHANGED <<f_req, reddit_items, hn_items, gnews_items, x_items, x_status,
                   source_health, f_calls, f_last, f_raised>>
    /\ UNCHANGED <<dedupeVars, scoreVars, cacheVars, enrichVars, balanceVars, closeVars, payloadVars>>

\* lines 1234-1240 with a query, lines 1276-1282 without
FetchReturn ==
    /\ f_pc = "health"
    /\ source_health' =
          IF fetch_query # <<>>
          THEN [source \in HealthSources |->
                   CASE source = "reddit" -> HealthOf(reddit_items, "empty_query_mode")
                     [] source = "hacker_news" -> HealthOf(hn_items, "empty_query_mode")
                     [] source = "google_news" -> HealthOf(gnews_items, "empty_query_mode")
                     [] source = "x" -> HealthStatus("skipped_query_mode")]
          ELSE [source \in HealthSources |->
                   CASE source = "reddit" -> HealthOf(reddit_items, "empty_or_rate_limited")
                     [] source = "hacker_news" -> HealthOf(hn_items, "empty")
                     [] source = "google_news" -> HealthOf(gnews_items, "empty_or_rate_limited")
                     [] source = "x" -> HealthStatus(x_status)]
    /\ f_pc' = "done"
    /\ UNCHANGED <<f_req, reddit_items, hn_items, gnews_items, x_items, x_status, f_items,
                   f_calls, f_last, f_raised>>
    /\ UNCHANGED <<dedupeVars, scoreVars, cacheVars, enrichVars, balanceVars, closeVars, payloadVars>>

----------------------------------------------------------------------------
(* Inputs and specification of the enrichment stage *)

\* a TrendItem with all its fields; `engagement` is metrics["engagement"] and
\* `metrics` holds the other entries
FullItem(id, platform, category, title, summary, image_url, source_name, source_url, url, author, created_utc, engagement, metrics) ==
    [id |-> id, platform |-> platform, category |-> category, title |-> title,
     summary |-> summary, image_url |-> image_url, source_name |-> source_name,
     source_url |-> source_url, url |-> url, author |-> author,
     created_utc |-> created_utc, engagement |-> engagement, metrics |-> metrics]

\* a Reddit link post without a thumbnail (lines 564-626): the summary is the title
ItemLinkPost ==
    FullItem(<<"reddit", <<"c", "1">>>>, "Reddit", <<"s", "p", "o", "r", "t", "s">>, <<"C", "u", "p", " ", "f", "i", "n", "a", "l", " ", "m", "a", "t", "c", "h">>, <<"C", "u", "p", " ", "f", "i", "n", "a", "l", " ", "m", "a", "t", "c", "h">>,
             <<>>, <<"e", "s", "p", "n", ".", "c", "o", "m">>, <<"h", "t", "t", "p", "s", ":", "/", "/", "w", "w", "w", ".", "e", "s", "p", "n", ".", "c", "o", "m">>, <<"h", "t", "t", "p", "s", ":", "/", "/", "w", "w", "w", ".", "e", "s", "p", "n", ".", "c", "o", "m", "/", "c", "u", "p">>,
             <<"u", "n", "k", "n", "o", "w", "n">>, FetchClock - 600, 50, [score |-> 40, comments |-> 5])

\* a Reddit self post with a thumbnail
ItemSelfPost ==
    FullItem(<<"reddit", <<"q", "2">>>>, "Reddit", <<"t", "r", "e", "n", "d", "i", "n", "g">>, <<"Q", "u", "i", "e", "t", " ", "d", "a", "y">>,
             <<"N", "o", "t", "h", "i", "n", "g", " ", "m", "u", "c", "h", " ", "h", "a", "p", "p", "e", "n", "e", "d", " ", "i", "n", " ", "t", "o", "w", "n", " ", "t", "o", "d", "a", "y", ",", " ", "r", "e", "s", "i", "d", "e", "n", "t", "s", " ", "s", "a", "y", ".">>,
             <<"h", "t", "t", "p", "s", ":", "/", "/", "b", ".", "t", "h", "u", "m", "b", "s", ".", "r", "e", "d", "d", "i", "t", "m", "e", "d", "i", "a", ".", "c", "o", "m", "/", "t", ".", "j", "p", "g">>, <<"r", "/", "n", "e", "w", "s">>, <<"h", "t", "t", "p", "s", ":", "/", "/", "w", "w", "w", ".", "r", "e", "d", "d", "i", "t", ".", "c", "o", "m">>,
             <<"h", "t", "t", "p", "s", ":", "/", "/", "w", "w", "w", ".", "r", "e", "d", "d", "i", "t", ".", "c", "o", "m", "/", "r", "/", "n", "e", "w", "s", "/", "q", "2">>, <<"a", "n", "n", "a">>, FetchClock - 900, 5,
             [score |-> 3, comments |-> 1])

\* a Hacker News story whose "url" is the empty string (lines 637-675)
ItemStoryNoUrl ==
    FullItem(<<"hn", <<"1", "0", "1">>>>, "Hacker News", <<"w", "o", "r", "l", "d">>, <<"G", "l", "o", "b", "a", "l", " ", "s", "u", "m", "m", "i", "t", " ", "o", "p", "e", "n", "s">>,
             <<"G", "l", "o", "b", "a", "l", " ", "s", "u", "m", "m", "i", "t", " ", "o", "p", "e", "n", "s", " ", "C", "o", "m", "m", "u", "n", "i", "t", "y", " ", "s", "i", "g", "n", "a", "l", " ", "f", "r", "o", "m", " ", "H", "a", "c", "k", "e", "r", " ", "N", "e", "w", "s", ".", " ", "O", "p", "e", "n", " ", "t", "h", "e", " ", "a", "r", "t", "i", "c", "l", "e", " ", "f", "o", "r", " ", "f", "u", "l", "l", " ", "c", "o", "n", "t", "e", "x", "t", ".">>,
             <<>>, <<"H", "a", "c", "k", "e", "r", " ", "N", "e", "w", "s">>, <<>>, <<>>, <<"p", "g">>, FetchClock - 1200, 11,
             [score |-> 8, comments |-> 1])

\* a Hacker News story whose "url" has no scheme
ItemStoryBareUrl ==
    FullItem(<<"hn", <<"1", "0", "2">>>>, "Hacker News", <<"t", "r", "e", "n", "d", "i", "n", "g">>, <<"U", "n", "n", "a", "m", "e", "d">>,
             <<"U", "n", "n", "a", "m", "e", "d", " ", "C", "o", "m", "m", "u", "n", "i", "t", "y", " ", "s", "i", "g", "n", "a", "l", " ", "f", "r", "o", "m", " ", "H", "a", "c", "k", "e", "r", " ", "N", "e", "w", "s", ".", " ", "O", "p", "e", "n", " ", "t", "h", "e", " ", "a", "r", "t", "i", "c", "l", "e", " ", "f", "o", "r", " ", "f", "u", "l", "l", " ", "c", "o", "n", "t", "e", "x", "t", ".">>,
             _webshot_url(<<"e", "x", "a", "m", "p", "l", "e", ".", "o", "r", "g", "/", "s", "t", "o", "r", "y">>), <<"H", "a", "c", "k", "e", "r", " ", "N", "e", "w", "s">>, <<>>, <<"e", "x", "a", "m", "p", "l", "e", ".", "o", "r", "g", "/", "s", "t", "o", "r", "y">>,
             <<"u", "n", "k", "n", "o", "w", "n">>, FetchClock - 1200, 8, [score |-> 8, comments |-> 0])

\* a Google News record without a source or a description (lines 872-910)
ItemGoogleNews ==
    FullItem(<<"gnews", <<"h", "e", "a", "l", "t", "h">>, <<"h", "t", "t", "p", "s", ":", "/", "/", "n", "e", "w", "s", ".", "g", "o", "o", "g", "l", "e", ".", "c", "o", "m", "/", "r", "s", "s", "/", "a", "r", "t", "i", "c", "l", "e", "s", "/", "a", "2">>, <<"V", "a", "c", "c", "i", "n", "e", " ", "t", "r", "i", "a", "l", " ", "r", "e", "s", "u", "l", "t", "s">>>>,
             "Google News", <<"h", "e", "a", "l", "t", "h">>, <<"V", "a", "c", "c", "i", "n", "e", " ", "t", "r", "i", "a", "l", " ", "r", "e", "s", "u", "l", "t", "s">>,
             <<"V", "a", "c", "c", "i", "n", "e", " ", "t", "r", "i", "a", "l", " ", "r", "e", "s", "u", "l", "t", "s", ".", " ", "T", "h", "i", "s", " ", "i", "s", " ", "a", " ", "t", "r", "e", "n", "d", "i", "n", "g", " ", "s", "t", "o", "r", "y", ";", " ", "o", "p", "e", "n", " ", "t", "h", "e", " ", "o", "f", "f", "i", "c", "i", "a", "l", " ", "s", "o", "u", "r", "c", "e", " ", "f", "o", "r", " ", "f", "u", "l", "l", " ", "d", "e", "t", "a", "i", "l", "s", ".">>,
             _webshot_url(<<"h", "t", "t", "p", "s", ":", "/", "/", "n", "e", "w", "s", ".", "g", "o", "o", "g", "l", "e", ".", "c", "o", "m", "/", "r", "s", "s", "/", "a", "r", "t", "i", "c", "l", "e", "s", "/", "a", "2">>), <<"n", "e", "w", "s", ".", "g", "o", "o", "g", "l", "e", ".", "c", "o", "m">>,
             <<"h", "t", "t", "p", "s", ":", "/", "/", "n", "e", "w", "s", ".", "g", "o", "o", "g", "l", "e", ".", "c", "o", "m">>, <<"h", "t", "t", "p", "s", ":", "/", "/", "n", "e", "w", "s", ".", "g", "o", "o", "g", "l", "e", ".", "c", "o", "m", "/", "r", "s", "s", "/", "a", "r", "t", "i", "c", "l", "e", "s", "/", "a", "2">>, <<>>,
             FetchClock - 1800, 35, [score |-> 12, comments |-> 0])

EnrichSamples ==
    <<ItemLinkPost, ItemSelfPost, ItemStoryNoUrl, ItemStoryBareUrl, ItemGoogleNews>>

\* the longest list given to the enrichment stage
MaxEnrichItems == 2

\* what a worker's _read_article_metadata comes back with, or that the worker raises
EnrichOutcomes ==
    << Returned(NoMeta), Raised("ValueError"), Returned(MetaOfPage[PageOpenGraph]),
       Returned(MetaOfPage[PagePlain]), Returned(MetaOfPage[PageGoogleNews]) >>

\* requests.get raises for a URL without a scheme and a host, and an empty
\* URL is not requested at all: the metadata of such a link is {}
Readable(url) == UrlParse(url).netloc # <<>>

\* the longest list that exceeds the budget of the browse mode
MaxBudgetItems == 7

\* a list of n items: the samples in turn, the first sample last
SampleList(n) == [i \in 1..n |-> EnrichSamples[((n - i) % Len(EnrichSamples)) + 1]]

\* the outcomes tried per worker: all of them for the short lists, the first
\* three for the long ones
OutcomeChoices(n) == IF n <= MaxEnrichItems THEN 1..Len(EnrichOutcomes) ELSE 1..3

\* the completion orders tried: all of them for up to two workers; beyond,
\* last to first, and the first worker finishing last
SampledOrders(count) ==
    IF count <= 2 THEN CompletionOrders(count)
    ELSE { [i \in 1..count |-> count + 1 - i], [i \in 1..count |-> (i % count) + 1] }

EnrichInit ==
    /\ e_pc = "ready"
    /\ \/ /\ \E n \in 1..MaxEnrichItems : \E pick \in [1..n -> 1..Len(EnrichSamples)] :
                e_items = [i \in 1..n |-> EnrichSamples[pick[i]]]
          /\ e_query = FALSE
       \/ /\ \E n \in (MaxEnrichItems + 1)..MaxBudgetItems : e_items = SampleList(n)
          /\ e_query \in BOOLEAN
    /\ e_outcomes = <<>>
    /\ e_order = <<>>
    /\ e_enriched = <<>>

EnrichIdle ==
    /\ e_pc = "off"
    /\ e_items = <<>>
    /\ e_query = FALSE
    /\ e_outcomes = <<>>
    /\ e_order = <<>>
    /\ e_enriched = <<>>

\* max_enrich of line 1233 (query mode) and of line 1274
EnrichBudget(query, items) == Min(IF query THEN 12 ELSE 6, Len(items))

\* lines 1274 and 1233: the visible items go through _enrich_items_concurrent
EnrichItems ==
    /\ e_pc = "ready"
    /\ \E pick \in [1..EnrichBudget(e_query, e_items) -> OutcomeChoices(Len(e_items))],
          order \in SampledOrders(EnrichBudget(e_query, e_items)) :
          /\ \A i \in 1..EnrichBudget(e_query, e_items) :
                ~Readable(e_items[i].url) => pick[i] = 1
          \* one outcome per submitted item
          /\ e_outcomes' = [i \in 1..EnrichBudget(e_query, e_items) |-> EnrichOutcomes[pick[i]]]
          /\ e_order' = order
          /\ e_enriched' = _enrich_items_concurrent(
                               e_items, EnrichBudget(e_query, e_items),
                               [i \in 1..EnrichBudget(e_query, e_items) |-> EnrichOutcomes[pick[i]]],
                               order)
    /\ e_pc' = "done"
    /\ UNCHANGED <<e_items, e_query>>
    /\ UNCHANGED <<dedupeVars, scoreVars, cacheVars, fetchVars, balanceVars, closeVars, payloadVars>>

----------------------------------------------------------------------------
(* Inputs and specification of the category balancing of fetch_trends *)

\* the longest ranked list given to _balanced_all_categories
MaxRanked == 6

\* the limits of the requests: main.py accepts 5 to 40
BalanceLimits == {5, 6}

\* the categories of the ranked items
BalanceCategories ==
    { <<"w", "o", "r", "l", "d">>, <<"h", "e", "a", "l", "t", "h">>,
      <<"t", "r", "e", "n", "d", "i", "n", "g">>, <<"s", "p", "o", "r", "t", "s">>,
      <<"f", "o", "o", "d">> }

\* the output of _dedupe_and_rank (line 1266): item i has the id i, the first
\* `high` items have the greater sort key
RankedItems(categories, high) ==
    [i \in 1..Len(categories) |->
        [id |-> i, category |-> categories[i],
         engagement |-> IF i <= high THEN 2 ELSE 1,
         created_utc |-> IF i <= high THEN 0 ELSE 1]]

BalanceInit ==
    /\ b_pc = "ready"
    /\ \E n \in 0..MaxRanked : \E categories \in [1..n -> BalanceCategories], high \in 0..n :
          b_items = RankedItems(categories, high)
    /\ b_limit \in BalanceLimits
    /\ b_selected = <<>>

BalanceIdle ==
    /\ b_pc = "off"
    /\ b_items = <<>>
    /\ b_limit = 0
    /\ b_selected = <<>>

\* line 1268
BalanceAllCategories ==
    /\ b_pc = "ready"
    /\ b_selected' = _balanced_all_categories(b_items, b_limit)
    /\ b_pc' = "done"
    /\ UNCHANGED <<b_items, b_limit>>
    /\ UNCHANGED <<dedupeVars, scoreVars, cacheVars, fetchVars, enrichVars, closeVars, payloadVars>>

----------------------------------------------------------------------------
(* Inputs and specification of the summary test of the enrichment *)

CloseTitles ==
    { <<>>, <<"!", "!", "!">>, <<"C", "u", "p">>, <<"C", "u", "p", " ", "f", "i", "n", "a", "l">>, <<"C", "u", "p", " ", "f", "i", "n", "a", "l", ":", " ", "m", "a", "t", "c", "h", " ", "r", "e", "p", "o", "r", "t">>,
      <<"F", "e", "d", " ", "h", "o", "l", "d", "s", " ", "r", "a", "t", "e", "s", " ", "s", "t", "e", "a", "d", "y", " ", "a", "g", "a", "i", "n">> }

CloseSummaries ==
    { <<>>, <<"?", "?">>, <<"C", "u", "p">>, <<"c", "u", "p", " ", "f", "i", "n", "a", "l", "!">>, <<"C", "u", "p", " ", "f", "i", "n", "a", "l", " ", "m", "a", "t", "c", "h">>, <<"C", "U", "P", " ", "F", "I", "N", "A", "L", " ", "-", " ", "m", "a", "t", "c", "h", " ", "r", "e", "p", "o", "r", "t", ",", " ", "l", "i", "v", "e">>,
      <<"M", "a", "t", "c", "h", " ", "r", "e", "p", "o", "r", "t", ":", " ", "c", "u", "p", " ", "f", "i", "n", "a", "l">>, <<"R", "e", "p", "o", "r", "t", " ", "o", "f", " ", "t", "h", "e", " ", "f", "i", "n", "a", "l", " ", "m", "a", "t", "c", "h", ":", " ", "t", "h", "e", " ", "c", "u", "p", " ", "s", "t", "a", "y", "s">>,
      <<"R", "a", "t", "e", "s", ":", " ", "F", "e", "d", " ", "h", "o", "l", "d", "s", " ", "s", "t", "e", "a", "d", "y">>,
      <<"F", "e", "d", " ", "h", "o", "l", "d", "s", " ", "r", "a", "t", "e", "s", " ", "s", "t", "e", "a", "d", "y", " ", "a", "g", "a", "i", "n", ",", " ", "s", "a", "y", " ", "m", "a", "r", "k", "e", "t", "s", " ", "a", "n", "d", " ", "a", "n", "a", "l", "y", "s", "t", "s", " ", "t", "o", "d", "a", "y">>, <<"N", "o", "t", "h", "i", "n", "g", " ", "a", "l", "i", "k", "e">> }

CloseInit ==
    /\ c_pc = "ready"
    /\ c_summary \in CloseSummaries
    /\ c_title \in CloseTitles
    /\ c_close = FALSE

CloseIdle ==
    /\ c_pc = "off"
    /\ c_summary = <<>>
    /\ c_title = <<>>
    /\ c_close = FALSE

\* lines 422 and 428: the summary of an item, or the description read from
\* its page, is tested against the title
SummaryTest ==
    /\ c_pc = "ready"
    /\ c_close' = _summary_is_too_close_to_title(c_summary, c_title)
    /\ c_pc' = "done"
    /\ UNCHANGED <<c_summary, c_title>>
    /\ UNCHANGED <<dedupeVars, scoreVars, cacheVars, fetchVars, enrichVars, balanceVars,
                   payloadVars>>

----------------------------------------------------------------------------
(* Inputs and specification of the response of main.py *)

\* the longest list of trends fetch_trends returns
MaxTrends == 3

\* scoring.py lines 33-41: round(100 * (1 - exp(-velocity / 120)), 2), in
\* hundredths, of the velocities of the scored trends: 500 an hour gives
\* 98.45 and 20 an hour 15.35
_spread_index(trend) ==
    IF trend.engagement = 500 /\ trend.age = 3600 THEN 9845 ELSE 1535

ScoredTrend(platform, title, source_name, netloc, velocity, evidence) ==
    [ trend |-> [ platform |-> platform, title |-> title, source_name |-> source_name,
                  source_url |-> Url(netloc), url |-> Url(<<"t", ".", "c", "o">>),
                  engagement |-> velocity.engagement, age |-> velocity.age ],
      evidence |-> evidence ]

FastVelocity == [engagement |-> 500, age |-> 3600]

SlowVelocity == [engagement |-> 40, age |-> 7200]

\* trends with the evidence verify_claim finds for their titles
PayloadSamples ==
    { ScoredTrend("X", ShockingTitle, <<>>, <<"e", "x", "a", "m", "p", "l", "e", ".", "o", "r", "g">>, FastVelocity, NoEvidence),
      ScoredTrend("X", ShockingTitle, <<>>, <<"e", "x", "a", "m", "p", "l", "e", ".", "o", "r", "g">>, SlowVelocity, NoEvidence),
      ScoredTrend("Reddit", <<"F", "e", "d", " ", "h", "o", "l", "d", "s">>, <<>>, <<"e", "x", "a", "m", "p", "l", "e", ".", "o", "r", "g">>, FastVelocity, NoEvidence),
      ScoredTrend("Google News", <<"F", "e", "d", " ", "h", "o", "l", "d", "s">>, <<"R", "e", "u", "t", "e", "r", "s">>, <<"w", "w", "w", ".", "r", "e", "u", "t", "e", "r", "s", ".", "c", "o", "m">>, SlowVelocity,
                  [credible_hits |-> 4, total_hits |-> 8, source_diversity |-> 2, confidence |-> 5556]),
      ScoredTrend("Hacker News", <<"V", "i", "r", "a", "l", "!">>, <<"C", "N", "N">>, <<"e", "d", "i", "t", "i", "o", "n", ".", "c", "n", "n", ".", "c", "o", "m">>, FastVelocity,
                  [credible_hits |-> 1, total_hits |-> 4, source_diversity |-> 1, confidence |-> 111]),
      ScoredTrend("Google News", <<"F", "e", "d", " ", "h", "o", "l", "d", "s">>, <<>>, <<"e", "x", "a", "m", "p", "l", "e", ".", "o", "r", "g">>, SlowVelocity, NoEvidence) }

\* scoring.py lines 103-111: the fields of an AnalysisResult the response is
\* ordered by, with its trend
AnalysisResult(scored) ==
    LET result == analyze_trend(scored.trend, scored.evidence) IN
    [ trend |-> scored.trend, verdict |-> result.verdict,
      fake_probability |-> result.fake_probability,
      spread_index |-> _spread_index(scored.trend) ]

AnalyzedKeyLessBySpread(a, b) == a.spread_index < b.spread_index

\* lines 59-63: the key (verdict == "High Risk", fake_probability,
\* spread_index), compared as Python compares tuples, False before True
AnalyzedKeyLess(a, b) ==
    LET high_a == a.verdict = "High Risk"
        high_b == b.verdict = "High Risk"
    IN  \/ ~high_a /\ high_b
        \/ high_a = high_b /\ a.fake_probability < b.fake_probability
        \/ /\ high_a = high_b /\ a.fake_probability = b.fake_probability
           /\ a.spread_index < b.spread_index

\* list.sort(reverse=True) is stable: a result goes after every result
\* already placed whose key is not less than its own
RECURSIVE InsertAnalyzed(_, _)
InsertAnalyzed(sorted, result) ==
    IF sorted = <<>> THEN <<result>>
    ELSE IF AnalyzedKeyLess(Head(sorted), result)
         THEN <<result>> \o sorted
         ELSE <<Head(sorted)>> \o InsertAnalyzed(Tail(sorted), result)

RECURSIVE SortAnalyzed(_, _)
SortAnalyzed(sorted, rest) ==
    IF rest = <<>> THEN sorted
    ELSE SortAnalyzed(InsertAnalyzed(sorted, Head(rest)), Tail(rest))

PayloadInit ==
    /\ p_pc = "ready"
    /\ \E n \in 0..MaxTrends : p_trends \in [1..n -> PayloadSamples]
    /\ p_results = <<>>
    /\ p_count = 0

PayloadIdle ==
    /\ p_pc = "off"
    /\ p_trends = <<>>
    /\ p_results = <<>>
    /\ p_count = 0

\* main.py lines 53-73: executor.map keeps the order of the trends
FreshPayload ==
    /\ p_pc = "ready"
    /\ LET analyzed == SortAnalyzed(<<>>, [i \in 1..Len(p_trends) |-> AnalysisResult(p_trends[i])])
       IN  /\ p_results' = analyzed
           /\ p_count' = Len(analyzed)
    /\ p_pc' = "done"
    /\ UNCHANGED p_trends
    /\ UNCHANGED <<dedupeVars, scoreVars, cacheVars, fetchVars, enrichVars, balanceVars,
                   closeVars>>

----------------------------------------------------------------------------
(* Specifications: one per component, the others idle *)

InitDedupe == DedupeInit /\ ScoreIdle /\ CachesIdle /\ FetchIdle /\ EnrichIdle /\ BalanceIdle /\ CloseIdle /\ PayloadIdle

NextDedupe == CallDedupeAndRank /\ UNCHANGED <<scoreVars, cacheVars, fetchVars, enrichVars, balanceVars, closeVars, payloadVars>>

SpecDedupe == InitDedupe /\ [][NextDedupe]_vars

InitScore == ScoreInit /\ DedupeIdle /\ CachesIdle /\ FetchIdle /\ EnrichIdle /\ BalanceIdle /\ CloseIdle /\ PayloadIdle

NextScore == AnalyzeTrend /\ UNCHANGED <<dedupeVars, cacheVars, fetchVars, enrichVars, balanceVars, closeVars, payloadVars>>

SpecScore == InitScore /\ [][NextScore]_vars

InitCaches ==
    /\ DedupeIdle /\ ScoreIdle /\ FetchIdle /\ EnrichIdle /\ BalanceIdle /\ CloseIdle /\ PayloadIdle
    /\ now = 0
    /\ \/ AnalyzeInit /\ VerifyIdle /\ MetadataIdle
       \/ AnalyzeIdle /\ MetadataIdle /\ \E n \in 1..NumThreads : VerifyInit(1..n)
       \/ AnalyzeIdle /\ VerifyIdle /\ \E n \in 1..NumThreads : MetadataInit(1..n)

NextCaches ==
    \/ \E t \in Threads :
          \/ AnalyzeCall(t)
          \/ AnalyzeAcquireCheck(t)
          \/ AnalyzeCheck(t)
          \/ AnalyzeFresh(t)
          \/ AnalyzeAcquireStore(t)
          \/ AnalyzeStore(t)
          \/ AnalyzeReturn(t)
    \/ AnalyzeTick
    \/ \E t \in Threads :
          \/ VerifyCall(t)
          \/ VerifyAcquireCheck(t)
          \/ VerifyCheck(t)
          \/ VerifyFetch(t)
          \/ VerifyAcquireStore(t)
          \/ VerifyStore(t)
          \/ VerifyReturn(t)
    \/ VerifyTick
    \/ \E t \in Threads :
          \/ MetadataCall(t)
          \/ MetadataAcquireCheck(t)
          \/ MetadataCheck(t)
          \/ MetadataFetch(t)
          \/ MetadataAcquireStore(t)
          \/ MetadataStore(t)
          \/ MetadataReturn(t)
    \/ MetadataTick

SpecCaches == InitCaches /\ [][NextCaches]_vars

InitFetch ==
    /\ DedupeIdle /\ ScoreIdle /\ EnrichIdle /\ BalanceIdle /\ CloseIdle /\ PayloadIdle
    /\ now = FetchClock
    /\ AnalyzeIdle /\ VerifyIdle /\ MetadataIdle
    /\ FetchInit

NextFetch ==
    \/ FetchCall
    \/ FetchReddit
    \/ FetchHackerNews
    \/ FetchGoogleNews
    \/ FetchX
    \/ FetchRedditFallback
    \/ FetchHackerNewsFallback
    \/ QueryGoogleNews
    \/ QueryReddit
    \/ QueryRedditFallback
    \/ QueryHackerNews
    \/ QueryHackerNewsFallback
    \/ FetchRank
    \/ FetchEnrich
    \/ FetchReturn

SpecFetch == InitFetch /\ [][NextFetch]_vars

InitEnrich == DedupeIdle /\ ScoreIdle /\ CachesIdle /\ FetchIdle /\ EnrichInit /\ BalanceIdle /\ CloseIdle /\ PayloadIdle

NextEnrich == EnrichItems

SpecEnrich == InitEnrich /\ [][NextEnrich]_vars

InitBalance ==
    DedupeIdle /\ ScoreIdle /\ CachesIdle /\ FetchIdle /\ EnrichIdle /\ BalanceInit
    /\ CloseIdle /\ PayloadIdle

NextBalance == BalanceAllCategories

SpecBalance == InitBalance /\ [][NextBalance]_vars

InitSummary ==
    /\ DedupeIdle /\ ScoreIdle /\ CachesIdle /\ FetchIdle /\ EnrichIdle /\ BalanceIdle
    /\ CloseInit /\ PayloadIdle

NextSummary == SummaryTest

SpecSummary == InitSummary /\ [][NextSummary]_vars

InitPayload ==
    /\ DedupeIdle /\ ScoreIdle /\ CachesIdle /\ FetchIdle /\ EnrichIdle /\ BalanceIdle
    /\ CloseIdle /\ PayloadInit

NextPayload == FreshPayload

SpecPayload == InitPayload /\ [][NextPayload]_vars

----------------------------------------------------------------------------
(* Claims about _dedupe_and_rank *)

TitleKey(item) == _normalize_title(item.title)

NonEmptyKeys == {TitleKey(d_trends[i]) : i \in 1..Len(d_trends)} \ {<<>>}

KeyGroup(key) == {i \in 1..Len(d_trends) : TitleKey(d_trends[i]) = key}

\* the member of a group with the highest engagement, the earliest of them
\* in input order
BestOfGroup(key) ==
    CHOOSE i \in KeyGroup(key) :
        \A j \in KeyGroup(key) :
            \/ d_trends[j].engagement < d_trends[i].engagement
            \/ d_trends[j].engagement = d_trends[i].engagement /\ i <= j

\* C1: the output never holds two items with the same canonical title key nor
\* an item with the empty key; the only member of a key group that can appear
\* is the one with the highest engagement (the earliest on a tie); and when the
\* cap is at least the number of distinct non-empty keys exactly one member of
\* every group appears.
C1_DedupeKeepsBestOfEachKey ==
    d_pc = "done" =>
        /\ \A i, j \in 1..Len(d_out) :
                i # j => TitleKey(d_out[i]) # TitleKey(d_out[j])
        /\ \A i \in 1..Len(d_out) : TitleKey(d_out[i]) # <<>>
        /\ \A i \in 1..Len(d_out) :
                d_out[i] = d_trends[BestOfGroup(TitleKey(d_out[i]))]
        /\ d_limit >= Cardinality(NonEmptyKeys) =>
                \A key \in NonEmptyKeys :
                    Cardinality({i \in 1..Len(d_out) : TitleKey(d_out[i]) = key}) = 1

\* a later duplicate with more engagement displaced an earlier one, a tie kept
\* the earlier one, and an item with the empty key was dropped
C1_Witness ==
    /\ d_pc = "done"
    /\ Len(d_trends) = 3
    /\ TitleKey(d_trends[1]) = TitleKey(d_trends[2])
    /\ TitleKey(d_trends[1]) # <<>>
    /\ d_trends[1].title # d_trends[2].title
    /\ d_trends[2].engagement > d_trends[1].engagement
    /\ TitleKey(d_trends[3]) = <<>>
    /\ d_out = <<d_trends[2]>>

\* C2: the output is sorted non-increasing by (engagement, created_utc): each
\* item's pair is lexicographically at most the pair of the item before it.
C2_RankedNonIncreasing ==
    d_pc = "done" =>
        \A i \in 1..(Len(d_out) - 1) :
            \/ d_out[i + 1].engagement < d_out[i].engagement
            \/ /\ d_out[i + 1].engagement = d_out[i].engagement
               /\ d_out[i + 1].created_utc <= d_out[i].created_utc

\* the sort moved items: equal engagement is ordered by creation time, against
\* the input order
C2_Witness ==
    /\ d_pc = "done"
    /\ Len(d_out) = 3
    /\ d_out[1].engagement = d_out[2].engagement
    /\ d_out[1].created_utc > d_out[2].created_utc
    /\ d_out[1].id > d_out[2].id
    /\ d_out[2].engagement > d_out[3].engagement

\* C3: for every cap N >= 0 the output has at most N items, and it is empty
\* when N = 0.
C3_CapRespected ==
    d_pc = "done" =>
        /\ Len(d_out) <= d_limit
        /\ d_limit = 0 => d_out = <<>>

\* the cap cut the ranked list: more distinct keys than the cap
C3_Witness ==
    /\ d_pc = "done"
    /\ d_limit >= 1
    /\ Cardinality(NonEmptyKeys) > d_limit
    /\ Len(d_out) = d_limit

----------------------------------------------------------------------------
(* Claims about analyze_trend *)

Scored == s_pc \in {"scored", "rescored"}

\* C8: analyze_trend returns 0 <= fake_probability <= 100 and
\* 0 <= credibility_score <= 100, and the two sum to 100 within 0.1
\* (percentages in hundredths: 10000 is 100.00 and 10 is 0.1).
C8_ScoresBoundedAndComplementary ==
    Scored =>
        /\ 0 <= s_result.fake_probability /\ s_result.fake_probability <= 10000
        /\ 0 <= s_result.credibility_score /\ s_result.credibility_score <= 10000
        /\ s_result.fake_probability + s_result.credibility_score >= 10000 - 10
        /\ s_result.fake_probability + s_result.credibility_score <= 10000 + 10

\* strong evidence for a trusted source drove the sum below zero and the clamp
\* held the result at 0 / 100
C8_Witness ==
    /\ Scored
    /\ s_evidence.confidence = 10000
    /\ s_evidence.credible_hits = 6
    /\ s_result.source_trust = 100
    /\ s_result.fake_probability = 0
    /\ s_result.credibility_score = 10000

\* C9: of two scorings of the same item that differ only in
\* evidence.confidence, the one with the higher confidence never gets the
\* higher fake_probability.
C9_MonotoneInConfidence ==
    ( /\ s_pc = "rescored"
      /\ s_prev.evidence = [s_evidence EXCEPT !.confidence = s_prev.evidence.confidence]
      /\ s_evidence.confidence >= s_prev.evidence.confidence )
    => /\ s_result.fake_probability <= s_prev.result.fake_probability
       /\ s_result.fraction <= s_prev.result.fraction

\* confidence rose from 0.4499 to 0.45 for a source of trust >= 0.85: the
\* second high-trust discount set in and the fake probability fell by 8 points
C9_Witness ==
    /\ s_pc = "rescored"
    /\ s_prev.evidence.confidence = 4499
    /\ s_evidence.confidence = 4500
    /\ s_result.source_trust >= 85
    /\ s_prev.result.fraction > 80072
    /\ s_result.fraction = s_prev.result.fraction - 80072

\* C10: the verdict is 'Low Risk' exactly when the fake-probability fraction,
\* before the conversion to a rounded percentage, is <= 0.30, 'Medium Risk'
\* exactly when it is > 0.30 and <= 0.60, and 'High Risk' exactly when it is
\* > 0.60.
C10_VerdictThresholds ==
    Scored =>
        /\ s_result.verdict \in {"Low Risk", "Medium Risk", "High Risk"}
        /\ s_result.verdict = "Low Risk" <=> s_result.fraction <= 300000
        /\ s_result.verdict = "Medium Risk" <=>
              (s_result.fraction > 300000 /\ s_result.fraction <= 600000)
        /\ s_result.verdict = "High Risk" <=> s_result.fraction > 600000

\* the fraction sits exactly on a threshold, or just above it where the
\* rounded percentage still reads 30.00
C10_Witness ==
    /\ Scored
    /\ \/ s_result.fraction = 300000 /\ s_result.verdict = "Low Risk"
       \/ s_result.fraction = 600000 /\ s_result.verdict = "Medium Risk"
       \/ /\ s_result.fraction > 300000
          /\ s_result.fake_probability = 3000
          /\ s_result.verdict = "Medium Risk"

----------------------------------------------------------------------------
(* Claims about the caches *)

\* C4: a call of analyze for a key recomputes exactly when refresh is set or
\* the result cache holds no entry for the key stored within the last 180
\* seconds; otherwise it returns the stored payload itself without fetching
\* and leaves the cache alone; and every recomputation, forced or not, ends
\* by overwriting the key's slot with the new payload and the current time.
C4_FreshIffRefreshOrStale ==
    [][\A t \in Threads :
          LET key == cache_key(a_req[t])
              bucket == _analysis_cache[key]
              stored_within_ttl ==
                  bucket.payload # NoPayload /\ now - bucket.generated_at <= 180
              fresh == a_req[t].refresh \/ ~stored_within_ttl
          IN
          /\ (a_pc[t] = "check" /\ a_pc'[t] # "check") =>
                /\ a_pc'[t] = (IF fresh THEN "fresh" ELSE "done")
                /\ _analysis_cache' = _analysis_cache
                /\ ~fresh => a_payload'[t] = bucket.payload /\ ~a_fetched'[t]
          /\ (a_pc[t] = "fresh" /\ a_pc'[t] # "fresh") =>
                /\ a_pc'[t] = "acquire_store"
                /\ a_fetched'[t]
                /\ a_payload'[t].generated_at = now /\ a_payload'[t].by = t
          /\ (a_pc[t] = "acquire_store" /\ a_pc'[t] # "acquire_store") =>
                a_pc'[t] = "store"
          /\ (a_pc[t] = "store" /\ a_pc'[t] # "store") =>
                /\ a_pc'[t] = "done"
                /\ a_payload'[t] = a_payload[t]
                /\ _analysis_cache'[key] = [generated_at |-> now, payload |-> a_payload[t]]
          /\ (a_pc[t] # "done" /\ a_pc'[t] = "done") =>
                a_fetched'[t] = (a_pc[t] = "store")
      ]_vars

\* a request without refresh was answered, at age exactly 180 s, with the
\* payload another request had computed and stored, without fetching
C4_Witness ==
    \E t \in Threads :
        LET bucket == _analysis_cache[cache_key(a_req[t])] IN
        /\ a_pc[t] = "done"
        /\ ~a_req[t].refresh
        /\ ~a_fetched[t]
        /\ a_payload[t] = bucket.payload
        /\ a_payload[t].by # t
        /\ bucket.generated_at = 0
        /\ now = 180

\* the threads that found no valid entry for their key and have not yet
\* completed the write of the recomputed value
AnalyzeRecomputing(t) == a_pc[t] \in {"fresh", "acquire_store", "store"}

VerifyRecomputing(t) == v_pc[t] \in {"fetch", "acquire_store", "store"}

MetadataRecomputing(t) == m_pc[t] \in {"fetch", "acquire_store", "store"}

HeldInsideCheckOrStore(holder, pc) ==
    \A t \in Threads : (pc[t] \in {"check", "store"}) <=> (holder = t)

VerifyReturned(t) == v_pc[t] = "done"

\* C6 as stated: every evidence summary verify_claim returns has
\* credible_hits <= total_hits, and total_hits = 0 exactly when
\* confidence = 0.0.
C6_ZeroConfidenceIffNoHits ==
    \A t \in Threads :
        VerifyReturned(t) =>
            /\ v_result[t].credible_hits <= v_result[t].total_hits
            /\ (v_result[t].total_hits = 0) <=> (v_result[t].confidence = 0)

\* C6, amended: every evidence summary verify_claim returns has
\* credible_hits <= total_hits and confidence = 0.0 when total_hits = 0; the
\* confidence is 0.0 exactly when no article has a positive source weight
\* (source_diversity = 0), which includes feeds of one or more articles from
\* sources the trust tables do not know.
C6_ZeroConfidenceIffNoTrustedArticle ==
    \A t \in Threads :
        VerifyReturned(t) =>
            /\ v_result[t].credible_hits <= v_result[t].total_hits
            /\ (v_result[t].total_hits = 0) => (v_result[t].confidence = 0)
            /\ (v_result[t].confidence = 0) <=> (v_result[t].source_diversity = 0)
            /\ (v_result[t].confidence = 0) <=>
                  (\A i \in 1..Len(v_result[t].articles) :
                      v_result[t].articles[i].source_weight = 0)

\* a feed of two articles from unknown sources: two hits, confidence 0.0
C6_Witness ==
    \E t \in Threads :
        /\ VerifyReturned(t)
        /\ v_fetched[t]
        /\ v_result[t].total_hits = 2
        /\ v_result[t].credible_hits = 0
        /\ v_result[t].confidence = 0

\* the status the health map gives a source that contributed nothing
EmptyStatuses ==
    {"empty_or_rate_limited", "empty", "empty_query_mode", "skipped_query_mode",
     "api_error_or_empty", "fallback_unavailable_missing_token"}

\* the health map fetch_trends returned tells, source by source, whether the
\* source contributed: ok with the number of its items, or an empty status
HealthReflectsSources ==
    /\ source_health["reddit"] \in
          {HealthOf(reddit_items, status) : status \in EmptyStatuses}
    /\ source_health["hacker_news"] \in
          {HealthOf(hn_items, status) : status \in EmptyStatuses}
    /\ source_health["google_news"] \in
          {HealthOf(gnews_items, status) : status \in EmptyStatuses}
    /\ x_items = <<>> => source_health["x"].status \in EmptyStatuses

\* C7: whenever a source collaborator fails during fetch_trends (network
\* error, malformed payload or empty result) the source contributes an empty
\* list, the health map reflects it and the request completes; no source
\* failure leaves fetch_trends as an exception, all sources failing included.
C7_SourceFailureNeverAborts ==
    /\ f_pc # "raised"
    /\ f_last.unavailable => f_last.returned = 0
    /\ f_pc = "done" => HealthReflectsSources

\* what the code does keep: a source whose exchanges all fail at the transport
\* contributes nothing, and a fetch_trends that returns has a health map that
\* reflects every source
C7_TransportFailureDegrades ==
    /\ f_last.unavailable => f_last.returned = 0
    /\ f_pc = "done" => HealthReflectsSources

\* every source came back empty and fetch_trends returned zero results
C7_AllSourcesEmptyReturns ==
    /\ f_pc = "done"
    /\ f_items = <<>>
    /\ \A source \in HealthSources : source_health[source].status \in EmptyStatuses

\* a payload that decodes but has another shape left fetch_trends as an exception
C7_Raised == f_pc = "raised" /\ f_last.source = "reddit" /\ ~f_last.unavailable

\* lines 523-530: one of the category's keywords occurs in the title
_matches_category(title, category) ==
    IF category \in { <<"a", "l", "l">>, <<"t", "r", "e", "n", "d", "i", "n", "g">> } THEN TRUE
    ELSE LET rows == {i \in 1..Len(CATEGORY_KEYWORDS) : CATEGORY_KEYWORDS[i].category = category}
         IN  IF rows = {} THEN TRUE
             ELSE \E i \in rows : \E word \in CATEGORY_KEYWORDS[i].words :
                      Contains(Lower(title), word)

\* fetch_trends returned for a request with one category and no query
CategoryRequestReturned ==
    /\ f_pc = "done"
    /\ fetch_query = <<>>
    /\ fetch_category # <<"a", "l", "l">>

\* C11: for a request with a specific category c and no query, every item
\* fetch_trends returns is tagged c or has a title that matches c's keywords,
\* and at most `limit` items are returned, whatever the sources answer and
\* whether or not the sparse-category fallbacks fire.
C11_CategoryItemsMatchCategory ==
    CategoryRequestReturned =>
        /\ Len(f_items) <= fetch_limit
        /\ \A i \in 1..Len(f_items) :
              \/ f_items[i].category = fetch_category
              \/ _matches_category(f_items[i].title, fetch_category)

\* a sports request returned an item tagged "local" whose title has no sports keyword
C11_OffCategoryItemReturned ==
    /\ CategoryRequestReturned
    /\ \E i \in 1..Len(f_items) :
          /\ f_items[i].category = <<"l", "o", "c", "a", "l">>
          /\ ~_matches_category(f_items[i].title, fetch_category)

\* C12: the item sequence fetch_trends returns has at most `limit` items, in
\* query mode, in category "all" after balancing and in single-category
\* mode, and enrichment never changes its length.
C12_ReturnedWithinLimit ==
    [][ /\ f_pc' \in {"enrich", "health", "done"} => Len(f_items') <= f_req'.limit
        /\ f_pc = "enrich" => Len(f_items') = Len(f_items) ]_vars

\* a request for all categories came back full: the sources had more unique
\* items than the limit, and balancing and enrichment returned exactly `limit`
C12_Witness ==
    /\ f_pc = "done"
    /\ fetch_query = <<>>
    /\ fetch_category = <<"a", "l", "l">>
    /\ Len(f_items) = fetch_limit
    /\ Len(reddit_items) + Len(hn_items) + Len(gnews_items) + Len(x_items) > fetch_limit

\* C13: whenever the query is non-empty, fetch_trends never calls the X
\* source, neither the API fetch nor the Nitter fallback, and the health map
\* it returns records x as "skipped_query_mode", whatever the category is and
\* whatever the other sources return.
C13_QueryModeSkipsX ==
    fetch_query # <<>> =>
        /\ f_pc # "x"
        /\ \A i \in 1..Len(f_calls) : f_calls[i].source # "x"
        /\ f_last.source # "x"
        /\ x_items = <<>>
        /\ f_pc = "done" => source_health["x"] = HealthStatus("skipped_query_mode")

\* a query request returned after asking Google News, Reddit and Hacker News
C13_Witness ==
    /\ fetch_query # <<>>
    /\ f_pc = "done"
    /\ Len(f_calls) >= 3
    /\ f_items # <<>>
    /\ source_health["x"].status = "skipped_query_mode"

EnrichDone == e_pc = "done"

\* the worker of item i read the page and got metadata
MetadataRead(i) ==
    i <= Len(e_outcomes) /\ ~e_outcomes[i].raised /\ e_outcomes[i].value # NoMeta

\* the worker of item i got {} from _read_article_metadata
MetadataEmpty(i) ==
    i <= Len(e_outcomes) /\ ~e_outcomes[i].raised /\ e_outcomes[i].value = NoMeta

\* C14: each of summary, image_url, source_name and source_url that is
\* non-empty on the item before _enrich_trend_item is non-empty on the item
\* it returns, whether the metadata fetch succeeds or fails, and source_name
\* and source_url are unchanged whenever they were non-empty.
C14_EnrichmentNeverEmptiesAField ==
    EnrichDone =>
        \A i \in 1..Len(e_items) :
            /\ e_items[i].summary # <<>> => e_enriched[i].summary # <<>>
            /\ e_items[i].image_url # <<>> => e_enriched[i].image_url # <<>>
            /\ e_items[i].source_name # <<>> => e_enriched[i].source_name = e_items[i].source_name
            /\ e_items[i].source_url # <<>> => e_enriched[i].source_url = e_items[i].source_url

\* one item went through a failed metadata fetch and the next through a
\* successful one that replaced its summary
C14_Witness ==
    /\ EnrichDone
    /\ Len(e_items) = 2
    /\ MetadataEmpty(1)
    /\ e_items[1].source_name # <<>>
    /\ MetadataRead(2)
    /\ e_items[2].summary # <<>>
    /\ e_enriched[2].summary # e_items[2].summary

\* C15: the item _enrich_trend_item returns has the id, platform, category,
\* title, url, author, created_utc and metrics of its input, and the input
\* items are not changed by the enrichment.
C15_EnrichmentWritesDerivedFieldsOnly ==
    [][ e_pc' = "done" =>
          /\ e_items' = e_items
          /\ Len(e_enriched') = Len(e_items)
          /\ \A i \in 1..Len(e_items) :
                /\ e_enriched'[i].id = e_items[i].id
                /\ e_enriched'[i].platform = e_items[i].platform
                /\ e_enriched'[i].category = e_items[i].category
                /\ e_enriched'[i].title = e_items[i].title
                /\ e_enriched'[i].url = e_items[i].url
                /\ e_enriched'[i].author = e_items[i].author
                /\ e_enriched'[i].created_utc = e_items[i].created_utc
                /\ e_enriched'[i].engagement = e_items[i].engagement
                /\ e_enriched'[i].metrics = e_items[i].metrics ]_vars

\* an item came back with a new summary and a new image
C15_Witness ==
    /\ EnrichDone
    /\ \E i \in 1..Len(e_items) :
          /\ MetadataRead(i)
          /\ e_enriched[i].summary # e_items[i].summary
          /\ e_enriched[i].image_url # e_items[i].image_url

\* C16 as stated: when the metadata result of an item is empty, the item that
\* comes out of the enrichment stage equals the pre-enrichment item in every
\* field.
C16_FailedEnrichmentKeepsItem ==
    EnrichDone =>
        \A i \in 1..Len(e_items) : MetadataEmpty(i) => e_enriched[i] = e_items[i]

\* C16, amended: when the metadata result of an item is empty, the item that
\* comes out keeps every field except an empty image_url, source_name or
\* source_url, which get a fallback made from the item itself: the image
\* becomes the screenshot address of source_url or else of the link, and
\* stays empty only when both are empty.  When the worker raises, the item
\* equals the pre-enrichment item in every field.
C16_FailedEnrichmentKeepsNonEmptyFields ==
    EnrichDone =>
        \A i \in 1..Len(e_items) :
            LET item == e_items[i]
                out == e_enriched[i]
                target == IF item.source_url # <<>> THEN item.source_url ELSE item.url
            IN  /\ (i <= Len(e_outcomes) /\ e_outcomes[i].raised) => out = item
                /\ MetadataEmpty(i) =>
                      /\ [out EXCEPT !.image_url = <<>>, !.source_name = <<>>, !.source_url = <<>>]
                            = [item EXCEPT !.image_url = <<>>, !.source_name = <<>>, !.source_url = <<>>]
                      /\ item.source_name # <<>> => out.source_name = item.source_name
                      /\ item.source_url # <<>> => out.source_url = item.source_url
                      /\ item.image_url # <<>> => out.image_url = item.image_url
                      /\ item.image_url = <<>> /\ target = <<>> => out.image_url = <<>>
                      /\ item.image_url = <<>> /\ target # <<>> =>
                            StartsWith(out.image_url, <<"h", "t", "t", "p", "s", ":", "/", "/", "s", ".", "w", "o", "r", "d", "p", "r", "e", "s", "s", ".", "c", "o", "m", "/", "m", "s", "h", "o", "t", "s", "/", "v", "1", "/", "h", "t", "t", "p", "s", "%", "3", "A", "%", "2", "F", "%", "2", "F">>)

\* a Reddit post without an image went through a failed metadata fetch and
\* came out with a screenshot address as its image
C16_Witness ==
    /\ EnrichDone
    /\ \E i \in 1..Len(e_items) :
          /\ MetadataEmpty(i)
          /\ e_items[i].image_url = <<>>
          /\ e_enriched[i].image_url # <<>>
          /\ e_enriched[i].summary = e_items[i].summary

OptionalNotes ==
    << "Low source diversity increases uncertainty.",
       "Headline wording appears potentially sensational.",
       "High social velocity suggests rapid spread.",
       "Source has a strong historical trust profile." >>

NoteRank(note) == CHOOSE k \in 1..Len(OptionalNotes) : OptionalNotes[k] = note

\* C17: the reasons list analyze_trend returns is never empty; its first
\* entry is the corroboration sentence of the evidence (>= 3 credible hits,
\* 0 credible hits, otherwise partial); its last entry is the fixed
\* probabilistic-disclaimer sentence; and the notes between them are the
\* low-diversity, sensational-wording, high-velocity and strong-source notes
\* in this order, each present exactly when its predicate holds.
C17_ReasonsOrderedAndComplete ==
    Scored =>
        LET reasons == s_result.reasons
            notes == SubSeq(reasons, 2, Len(reasons) - 1)
            Present(k) == \E i \in 1..Len(notes) : notes[i] = OptionalNotes[k]
        IN  /\ Len(reasons) >= 2
            /\ reasons[1] =
                  (IF s_evidence.credible_hits >= 3
                   THEN "Multiple high-trust outlets reported related claims."
                   ELSE IF s_evidence.credible_hits = 0
                   THEN "Strong corroboration was limited in current checks."
                   ELSE "Partial corroboration from trusted outlets was found.")
            /\ reasons[Len(reasons)] = "Assessment is probabilistic and may update with new evidence."
            /\ \A i \in 1..Len(notes) : \E k \in 1..Len(OptionalNotes) : notes[i] = OptionalNotes[k]
            /\ \A i, j \in 1..Len(notes) : i < j => NoteRank(notes[i]) < NoteRank(notes[j])
            /\ Present(1) <=> s_evidence.source_diversity <= 1
            /\ Present(2) <=> s_result.language_risk >= 20
            /\ Present(3) <=> (s_trend.engagement = 500 /\ s_trend.age = 3600)
            /\ Present(4) <=> s_result.source_trust >= 80

\* a scored item with partial corroboration and all four notes
C17_Witness ==
    /\ Scored
    /\ Len(s_result.reasons) = 6
    /\ s_evidence.credible_hits = 1

ShockingScenario ==
    /\ Scored
    /\ s_trend.title = ShockingTitle
    /\ s_trend.engagement = 500
    /\ s_trend.age = 3600
    /\ s_evidence = NoEvidence

\* C18 as stated: for the title 'Shocking! Market EXPLODES after rumor' with
\* engagement 500, age 1 hour and no corroborating evidence, the verdict is
\* 'Medium Risk' or 'High Risk' for every platform and every source trust.
C18_ShockingTitleNeverLowRisk ==
    ShockingScenario => s_result.verdict \in {"Medium Risk", "High Risk"}

\* C18, amended: in that scenario the language risk is 0.44, and the verdict
\* is 'Medium Risk' or 'High Risk' except for a Google News item whose source
\* trust is at least 0.94, for which it is 'Low Risk'.
C18_ShockingTitleLowRiskOnlyOnTrustedGoogleNews ==
    ShockingScenario =>
        /\ s_result.language_risk = 44
        /\ s_result.verdict \in {"Low Risk", "Medium Risk", "High Risk"}
        /\ s_result.verdict = "Low Risk"
              <=> (s_trend.platform = "Google News" /\ s_result.source_trust >= 94)

\* the scenario on a Google News item of a source with trust 0.95, and so
\* 'Low Risk'
C18_Witness ==
    /\ ShockingScenario
    /\ s_trend.platform = "Google News"
    /\ s_result.source_trust = 95
    /\ s_result.verdict = "Low Risk"

BothDiscountsApply ==
    /\ Scored
    /\ s_result.source_trust = 100
    /\ s_evidence.credible_hits = 4
    /\ s_evidence.confidence >= 4500

\* C19: for an item with source_trust = 1.0 whose evidence has 4 credible
\* hits and confidence >= 0.45, analyze_trend returns fake_probability <= 10
\* for every platform, language risk, total_hits and source_diversity.
C19_HighTrustCorroboratedAtMostTen ==
    BothDiscountsApply => s_result.fake_probability <= 1000

\* the case on X with a headline of language risk 1.0, few hits and one
\* source
C19_Witness ==
    /\ BothDiscountsApply
    /\ s_trend.platform = "X"
    /\ s_result.language_risk = 100
    /\ s_evidence.confidence = 4500
    /\ s_evidence.total_hits = 0
    /\ s_evidence.source_diversity = 1

\* C20: in each of the three caches an entry is valid exactly while
\* now - stored_at <= TTL (result 180 s, evidence 900 s, metadata 1800 s): a
\* read of a stored entry at an age up to and including the TTL is a hit,
\* and a read at a greater age is a miss that goes on to recompute.
C20_ValidWhileAgeAtMostTtl ==
    [][\A t \in Threads :
          /\ (a_pc[t] = "check" /\ a_pc'[t] # "check") =>
                LET bucket == _analysis_cache[cache_key(a_req[t])] IN
                (~a_req[t].refresh /\ bucket.payload # NoPayload) =>
                    /\ a_pc'[t] \in {"done", "fresh"}
                    /\ a_pc'[t] = "done" <=> now - bucket.generated_at <= 180
          /\ (v_pc[t] = "check" /\ v_pc'[t] # "check") =>
                LET cached == _verify_cache[verify_key(v_query[t])] IN
                cached # NoCached =>
                    /\ v_pc'[t] \in {"done", "fetch"}
                    /\ v_pc'[t] = "done" <=> now - cached[1] <= 900
          /\ (m_pc[t] = "check" /\ m_pc'[t] # "check") =>
                LET cached == _metadata_cache[m_url[t]] IN
                cached # NoCachedMeta =>
                    /\ m_pc'[t] \in {"done", "fetch"}
                    /\ m_pc'[t] = "done" <=> m_now[t] - cached[1].at <= 1800
      ]_vars

\* C21: two items of the output of _dedupe_and_rank that have the same
\* engagement and the same creation time stand in the order they had in the
\* input sequence (an item's id is its position in the input), also when a
\* later item replaced an earlier one with the same title key.
C21_TiesKeepInputOrder ==
    d_pc = "done" =>
        \A i, j \in 1..Len(d_out) :
            (/\ i < j
             /\ d_out[i].engagement = d_out[j].engagement
             /\ d_out[i].created_utc = d_out[j].created_utc)
            => d_out[i].id < d_out[j].id

\* the evidence of thread t was built from a feed by this call
EvidenceBuilt(t) == v_fetched[t] /\ v_pc[t] \in {"acquire_store", "store", "done"}

\* the domain verify_claim looks up for an article: that of the source url or
\* else that of the link
ArticleDomain(article) ==
    IF _domain_from_url(article.source_url) # <<>>
    THEN _domain_from_url(article.source_url)
    ELSE _domain_from_url(article.article_url)

\* the publisher name of an article: its `source` field, unless the item had
\* no name and the field holds the domain or "Unknown"
ArticleSourceName(article) ==
    IF article.source \in {ArticleDomain(article), <<"U", "n", "k", "n", "o", "w", "n">>}
    THEN <<>>
    ELSE article.source

\* C23: the source_weight of every evidence article verify_claim builds is
\* the maximum of the domain-suffix match weight and the publisher-name
\* substring match weight (0 when neither matches), also when both match
\* with different weights.
C23_ArticleWeightIsMaxOfDomainAndName ==
    \A t \in Threads :
        EvidenceBuilt(t) =>
            \A k \in 1..Len(v_result[t].articles) :
                LET article == v_result[t].articles[k] IN
                article.source_weight =
                    Max(_weight_for_domain(ArticleDomain(article)),
                        _weight_for_source_name(ArticleSourceName(article)))

ZeroValued(evidence) ==
    /\ evidence.credible_hits = 0
    /\ evidence.total_hits = 0
    /\ evidence.source_diversity = 0
    /\ evidence.confidence = 0
    /\ evidence.articles = <<>>

LookupFailed(t) == v_answer[t] \in {"error", "no_channel"}

OutsideLock == {"off", "idle", "acquire_check", "fresh", "fetch", "acquire_store", "done"}

\* the positions inside a `with` block: the steps taken from them have no
\* guard but the position itself
InsideLock == {"check", "store"}

Waiting(pc, t) == pc[t] \in {"acquire_check", "acquire_store"}

LocksHeldBy(t) ==
    {lock \in {"result", "evidence", "metadata"} :
        \/ lock = "result" /\ _cache_lock = t
        \/ lock = "evidence" /\ _verify_cache_lock = t
        \/ lock = "metadata" /\ _metadata_cache_lock = t}

ClampUnit(micro) == IF micro < 0 THEN 0 ELSE IF micro > 1000000 THEN 1000000 ELSE micro

\* the adjustments in the listed order, in micro: confidence, credible-hit
\* bonus, source trust, platform, language risk, weak-evidence penalty,
\* low-diversity penalty
ListedAdjustments(platform, language_risk, source_trust, evidence) ==
    << -(evidence.confidence * 72),
       -((IF evidence.credible_hits < 5 THEN evidence.credible_hits ELSE 5) * 50000),
       -(source_trust * 2000),
       (IF platform = "Google News" THEN -160000
        ELSE IF platform = "Hacker News" THEN -60000
        ELSE IF platform = "Reddit" THEN 60000
        ELSE IF platform = "X" THEN 100000 ELSE 0),
       language_risk * 2000,
       10000 * (10 - (IF evidence.total_hits < 10 THEN evidence.total_hits ELSE 10)),
       (IF evidence.source_diversity <= 1 THEN 60000 ELSE 0) >>

\* 0.40 plus the first n listed adjustments, without any clamp
RunningSum(adjustments, n) ==
    400000 + SumWeights([k \in 1..n |-> [source_weight |-> adjustments[k]]])

\* 0.40 with the first n listed adjustments applied one at a time and a clamp
\* to [0,1] after each
RECURSIVE ClampedAfterEach(_, _)
ClampedAfterEach(adjustments, n) ==
    IF n = 0 THEN 400000
    ELSE ClampUnit(ClampedAfterEach(adjustments, n - 1) + adjustments[n])

\* the two high-trust discounts, each followed by a clamp
AfterDiscounts(fraction, source_trust, evidence) ==
    LET first == IF source_trust >= 75 /\ evidence.credible_hits >= 1
                 THEN ClampUnit(fraction - 100000) ELSE fraction
    IN  IF source_trust >= 85 /\ evidence.confidence >= 4500
        THEN ClampUnit(first - 80000) ELSE first

StepwiseFraction ==
    AfterDiscounts(
        ClampedAfterEach(ListedAdjustments(s_trend.platform, s_result.language_risk,
                                           s_result.source_trust, s_evidence), 7),
        s_result.source_trust, s_evidence)

\* none of the seven intermediate values is cut by a clamp
NoIntermediateClamp ==
    LET adjustments == ListedAdjustments(s_trend.platform, s_result.language_risk,
                                         s_result.source_trust, s_evidence)
    IN  \A n \in 1..7 : RunningSum(adjustments, n) \in 0..1000000

\* C22 as stated: the fake-probability fraction of analyze_trend equals the
\* value obtained from 0.40 by applying the listed adjustments one at a time
\* with a clamp to [0,1] after each of them, then the two discounts.
C22_FractionIsClampedAfterEachAdjustment ==
    Scored => s_result.fraction = StepwiseFraction

\* C22, amended: analyze_trend clamps once after the seven listed
\* adjustments and once after each of the two high-trust discounts.  Its
\* fraction equals the value clamped after every adjustment whenever none of
\* the seven intermediate values leaves [0,1], and is never above it.
C22_FractionAtMostClampedAfterEach ==
    Scored =>
        /\ s_result.fraction <= StepwiseFraction
        /\ NoIntermediateClamp => s_result.fraction = StepwiseFraction

\* confidence 1.0 takes the running value below 0 at the first adjustment:
\* clamped there, the later penalties lift it again, while the code's single
\* clamp leaves 0.0
C22_Witness ==
    /\ Scored
    /\ s_evidence.confidence = 10000
    /\ s_result.fraction = 0
    /\ StepwiseFraction > 0

BalanceDone == b_pc = "done"

\* the categories in the fixed enumeration order, without "all"
EnumeratedCategories == SelectSeq(CATEGORY_ORDER, LAMBDA key : key # <<"a", "l", "l">>)

\* the position of the highest-ranked item of a category: no item of the
\* category has a greater (engagement, created_utc), and among equals it is
\* the first of the list; 0 when the category has no item
TopOf(items, category) ==
    LET members == {i \in 1..Len(items) : items[i].category = category} IN
    IF members = {} THEN 0
    ELSE CHOOSE i \in members :
            \A j \in members :
                /\ ~RankKeyLess(items[i], items[j])
                /\ (~RankKeyLess(items[j], items[i]) => i <= j)

\* the positions of the top items, category by category in enumeration order
CategoryTops(items) ==
    LET tops == [k \in 1..Len(EnumeratedCategories) |-> TopOf(items, EnumeratedCategories[k])]
    IN  SelectSeq(tops, LAMBDA i : i # 0)

\* the positions a balanced selection holds: the category tops up to the cap,
\* then the other positions in rank order, up to the cap
BalancedPositions(items, limit) ==
    LET tops == SliceTo(CategoryTops(items), limit)
        taken == {tops[k] : k \in 1..Len(tops)}
        positions == [i \in 1..Len(items) |-> i]
    IN  SliceTo(tops \o SelectSeq(positions, LAMBDA i : i \notin taken), limit)

\* C24: for category "all" without a query, _balanced_all_categories returns
\* min(limit, number of items) items without duplicates: first the
\* highest-ranked item of each non-empty category in enumeration order, up to
\* the cap, then the remaining items in rank order; every non-empty category
\* is represented when the cap is at least their number.
C24_BalancedSelection ==
    BalanceDone =>
        LET positions == BalancedPositions(b_items, b_limit) IN
        /\ Len(b_selected) = Min(b_limit, Len(b_items))
        /\ \A i, j \in 1..Len(b_selected) : i # j => b_selected[i].id # b_selected[j].id
        /\ b_selected = [k \in 1..Len(positions) |-> b_items[positions[k]]]
        /\ b_limit >= Len(CategoryTops(b_items)) =>
              \A i \in 1..Len(b_items) : \E k \in 1..Len(b_selected) :
                  b_selected[k].category = b_items[i].category

\* six items over four categories and a cap of five: the selection is not the
\* first five of the rank order, and the sixth item is in it
C24_Witness ==
    /\ BalanceDone
    /\ Len(b_items) = 6 /\ b_limit = 5
    /\ Len(CategoryTops(b_items)) = 4
    /\ b_selected # SliceTo(b_items, 5)
    /\ \E k \in 1..5 : b_selected[k].id = 6

\* what the worker of item i leaves at position i: the enriched item, or the
\* item itself when the worker raised
EnrichmentOf(i) ==
    IF e_outcomes[i].raised THEN e_items[i]
    ELSE _enrich_trend_item(e_items[i], e_outcomes[i].value)

SourceOfFetcher(fetcher) ==
    CASE fetcher = "reddit_search" -> "reddit"
      [] fetcher = "hacker_news_search" -> "hacker_news"
      [] OTHER -> fetcher

\* how many of the calls made so far went to a source
CallsTo(source) ==
    Cardinality({i \in 1..Len(f_calls) : SourceOfFetcher(f_calls[i].source) = source})

\* this step calls a fetcher
FetcherCalled == Len(f_calls') = Len(f_calls) + 1

\* this step calls a fetcher of a source that was fetched before in the request
SourceFetchedAgain == FetcherCalled /\ CallsTo(SourceOfFetcher(f_last'.source)) >= 1

\* fetch_trends is where it decides on a second fetch of Reddit, of Hacker News
RedditDecision == f_pc \in {"reddit_fallback", "query_reddit_fallback"}

HackerNewsDecision == f_pc \in {"hn_fallback", "query_hn_fallback"}

\* the list after the step holds the items before and the fallback items
\* through dedupe/rank: ranked, one item per title key, no title key lost
MergedInto(before, after) ==
    /\ \A i \in 1..Len(after) - 1 : ~RankKeyLess(after[i], after[i + 1])
    /\ \A i, j \in 1..Len(after) :
          i # j => _normalize_title(after[i].title) # _normalize_title(after[j].title)
    /\ \A i \in 1..Len(before) : \E j \in 1..Len(after) :
          _normalize_title(after[j].title) = _normalize_title(before[i].title)
    /\ Len(after) <= Len(before) + f_last'.returned

\* a second fetch of a source as the fallback policy describes it: against
\* "all", once, merged with the first result
Broadening ==
    /\ f_calls'[Len(f_calls')].category = <<"a", "l", "l">>
    /\ f_last'.source \in {"reddit", "hacker_news"}
    /\ CallsTo(f_last'.source) = 1
    /\ RedditDecision \/ HackerNewsDecision
    /\ (RedditDecision /\ f_pc' # "raised") => MergedInto(reddit_items, reddit_items')
    /\ (HackerNewsDecision /\ f_pc' # "raised") => MergedInto(hn_items, hn_items')

SearchFallback ==
    /\ f_calls'[Len(f_calls')].category = fetch_category
    /\ f_last'.source \in {"reddit", "hacker_news"}
    /\ \A i \in 1..Len(f_calls) : f_calls[i].source # f_last'.source
    /\ CallsTo(f_last'.source) = 1
    /\ RedditDecision \/ HackerNewsDecision
    /\ (RedditDecision /\ f_pc' # "raised") => Len(reddit_items') = f_last'.returned
    /\ (HackerNewsDecision /\ f_pc' # "raised") => Len(hn_items') = f_last'.returned

SummaryTested == c_pc = "done"

CanonicalSummary == _normalize_compare_text(c_summary)

CanonicalTitle == _normalize_compare_text(c_title)

\* a is b cut after some position
IsPrefixOf(a, b) == \E k \in 0..Len(b) : a = SubSeq(b, 1, k)

\* the word counts differ by at most 3
WordCountsWithinThree ==
    LET summary_count == Len(Split(CanonicalSummary))
        title_count == Len(Split(CanonicalTitle))
    IN  summary_count - title_count \in -3..3

\* the two texts share at least max(3, title word count - 1) distinct words
EnoughSharedWords ==
    LET shared == {word \in Words(CanonicalTitle) : word \in Words(CanonicalSummary)}
        needed == IF Len(Split(CanonicalTitle)) - 1 > 3
                  THEN Len(Split(CanonicalTitle)) - 1 ELSE 3
    IN  Cardinality(shared) >= needed

\* C27 as stated: _summary_is_too_close_to_title returns true exactly when
\* the canonical summary equals the canonical title or is a prefix of it, or
\* the word counts are within 3 of each other while the texts share at least
\* max(3, title word count - 1) distinct words.
C27_TooCloseIffEqualPrefixOrOverlap ==
    SummaryTested =>
        (c_close <=> \/ CanonicalSummary = CanonicalTitle
                     \/ IsPrefixOf(CanonicalSummary, CanonicalTitle)
                     \/ WordCountsWithinThree /\ EnoughSharedWords)

\* C27, amended: _summary_is_too_close_to_title returns true exactly when
\* the canonical summary or the canonical title is empty, or the canonical
\* summary equals the canonical title or starts with it (the title is a
\* prefix of the summary), or the word counts are within 3 of each other
\* while the texts share at least max(3, title word count - 1) distinct
\* words.
C27_TooCloseIffEmptyEqualStartsWithOrOverlap ==
    SummaryTested =>
        (c_close <=> \/ CanonicalSummary = <<>>
                     \/ CanonicalTitle = <<>>
                     \/ CanonicalSummary = CanonicalTitle
                     \/ IsPrefixOf(CanonicalTitle, CanonicalSummary)
                     \/ WordCountsWithinThree /\ EnoughSharedWords)

\* a summary that is the first word of its title is not too close
C27_Witness ==
    /\ SummaryTested
    /\ CanonicalTitle # <<>> /\ CanonicalSummary # <<>>
    /\ CanonicalSummary # CanonicalTitle
    /\ IsPrefixOf(CanonicalSummary, CanonicalTitle)
    /\ ~c_close

PayloadBuilt == p_pc = "done"

HighRisk(result) == result.verdict = "High Risk"

\* the key of a is not below the key of b, for the key (verdict is
\* "High Risk", fake_probability, spread_index)
KeyNotBelow(a, b) ==
    \/ HighRisk(a) /\ ~HighRisk(b)
    \/ /\ HighRisk(a) = HighRisk(b)
       /\ \/ a.fake_probability > b.fake_probability
          \/ a.fake_probability = b.fake_probability /\ a.spread_index >= b.spread_index

\* C30: in every response built by _fresh_payload the results are ordered by
\* descending (verdict is "High Risk", fake_probability, spread_index): every
\* "High Risk" result precedes every other result, the fake_probability
\* values do not increase from first to last, and analyzed_count equals the
\* number of results, which equals the number of items fetch_trends returned.
C30_ResultsOrderedAndCounted ==
    PayloadBuilt =>
        /\ \A i, j \in 1..Len(p_results) :
              i < j =>
                 /\ KeyNotBelow(p_results[i], p_results[j])
                 /\ HighRisk(p_results[j]) => HighRisk(p_results[i])
                 /\ p_results[i].fake_probability >= p_results[j].fake_probability
        /\ p_count = Len(p_results)
        /\ Len(p_results) = Len(p_trends)

\* three trends came in the order low, medium, high risk and the response
\* holds them in the order high, medium, low
C30_Witness ==
    /\ PayloadBuilt
    /\ Len(p_trends) = 3 /\ p_count = 3
    /\ p_results[1].verdict = "High Risk" /\ p_results[1].trend = p_trends[3].trend
    /\ p_results[2].verdict = "Medium Risk" /\ p_results[2].trend = p_trends[2].trend
    /\ p_results[3].verdict = "Low Risk" /\ p_results[3].trend = p_trends[1].trend

====
